---- MODULE Spec2Model ----
(***************************************************************************)
(* Model of the reCAPTCHA solver: the per-session state machine of         *)
(* sync_solver.ReCaptchaSolver / async_solver.AsyncReCaptchaSolver, and    *)
(* the thread-pool front end api_solver.APIHandler.                        *)
(*                                                                         *)
(* The specifications share the variables:                                 *)
(*   Spec         the API handler: NumTasks requests handed to a           *)
(*                ThreadPoolExecutor of MaxConcurrent workers, each worker *)
(*                running _sync_solve_captcha;                             *)
(*   SessionSpec  one direct call of solve_recaptcha (sync or async) with  *)
(*                every collaborator response chosen nondeterministically; *)
(*   EntrySpec    both of them behind their entry points: the /createTask  *)
(*                route and the single-solver calls of main.py;            *)
(*   RateLimitSpec, CleanSpec                                              *)
(*                one call of _check_rate_limit, of _convert_audio_to_text *)
(*                on an arbitrary input.                                   *)
(***************************************************************************)
EXTENDS Naturals, Sequences, FiniteSets, TLC

NumTasks == 3
MaxConcurrent == 2

Tasks == 1..NumTasks

VARIABLES
    impl,        \* which implementation runs the session: "sync" | "async" | "api" | "none"
    task,        \* the task parameters of each session
    pc,          \* position of each session in its code
    browser,     \* "none" | "open" | "closed" | "killed"
    context,     \* "none" | "open" | "closed" | "killed"
    method_i,    \* index into token_methods of the next strategy to try
    page_tokens, \* what each extraction strategy finds on the page when asked
    pending,     \* the value being returned / exception being raised through `finally`
    result,      \* what the session call finally returned or raised
    trace,       \* the collaborator calls the session made, in order
    work_queue,  \* the executor's FIFO work queue
    reply,       \* what APIHandler.solve_captcha returned to its caller
    http,        \* the response of the /createTask route: status and body
    completed,   \* batch pool: the task indices in the order their sessions ended
    returned,    \* batch pool: the list solve_multiple returned
    audio_text,  \* the text process_audio handed to _solve
    wait_timeout,       \* the timeout in force at each wait of the session
    rate_limit_message, \* _check_rate_limit: what the banner lookup meets
    rate_limited,       \* _check_rate_limit: how the call ended
    text,               \* _convert_audio_to_text: the recognised text
    cleaned_text,       \* _convert_audio_to_text: how the call ended
    raised,             \* the inner handler: the exception it is given
    frames,             \* _get_frame_token: what each frame of the page holds
    frame_token         \* _get_frame_token: how the call ended

vars == <<impl, task, pc, browser, context, method_i, page_tokens, pending, result, trace,
          work_queue, reply, http, completed, returned, audio_text, wait_timeout,
          rate_limit_message, rate_limited, text, cleaned_text, raised,
          frames, frame_token>>

batch == <<completed, returned>>

\* the variables of the single-function specifications
pure == <<rate_limit_message, rate_limited, text, cleaned_text, raised, frames, frame_token>>

----------------------------------------------------------------------------
(* Values *)

\* the timeouts of a session that has not waited for anything yet
NoWaits == [checkbox |-> 0, bframe |-> 0, audio_button |-> 0, download_link |-> 0]

\* _get_frame_token has not been called
NotCalled == "not called"

\* no exception has reached the inner handler
NoError == [step |-> "none", msg |-> <<>>]

\* _convert_audio_to_text has not been called
NoText == [kind |-> "none", text |-> <<>>]

NoTask == [url |-> FALSE, proxy |-> FALSE, site_key |-> FALSE, check_score |-> FALSE, wait |-> FALSE]

\* every combination of the parameters solve_recaptcha reads
TaskParams == [url : BOOLEAN, proxy : BOOLEAN, site_key : BOOLEAN, check_score : BOOLEAN, wait : BOOLEAN]

\* the tasks of a direct solve_recaptcha call: url is a required argument
SessionTasks == { d \in TaskParams : d.url }

\* tasks that passed create_task's validation (websiteURL and websiteKey present)
ApiTaskData == { d \in TaskParams : d.url /\ d.site_key /\ ~d.proxy /\ d.check_score /\ d.wait }

\* an error message is the sequence of its parts: <<prefix, ..., innermost text>>
NoResult == [ok |-> FALSE, token |-> <<>>, code |-> "none", msg |-> <<>>, score |-> "none"]

\* `return token` of solve_recaptcha
Returned(tok, sc) == [ok |-> TRUE, token |-> tok, code |-> "return", msg |-> <<>>, score |-> sc]

\* `raise Exception(m)` out of solve_recaptcha
Raised(m) == [ok |-> FALSE, token |-> <<>>, code |-> "raise", msg |-> m, score |-> "none"]

\* the {"errorId": 0, "status": "ready", "solution": {...}} dictionary
ApiReady(tok, sc) == [ok |-> TRUE, token |-> tok, code |-> "ready", msg |-> <<>>, score |-> sc]

\* the {"errorId": 1, "errorCode": c, "errorDescription": m} dictionary
ApiError(c, m) == [ok |-> FALSE, token |-> <<>>, code |-> c, msg |-> m, score |-> "none"]

\* no response has been sent
NoResponse == [status |-> 0, body |-> NoResult]

\* `return jsonify(body), status`
Response(st, b) == [status |-> st, body |-> b]

NotSerializable == <<"API Error: ", "Object of type coroutine is not JSON serializable">>

\* `result = await api_handler.solve_captcha(task); return jsonify(result)` inside
\* the try of create_task: an error dictionary is sent with the default status
\* 200; the "ready" dictionary holds the un-awaited coroutine of solver.solve(),
\* which jsonify cannot serialise, and an exception out of solve_captcha lands in
\* the same handler: ERROR_UNKNOWN with status 500
create_task_returns(r) ==
    IF r.ok \/ r.code = "raise"
    THEN Response(500, ApiError("ERROR_UNKNOWN",
                                IF r.ok THEN NotSerializable ELSE <<"API Error: ">> \o r.msg))
    ELSE Response(200, r)

RateLimitGeneric == "Rate limit reached, consider using or changing your proxy."
RateLimitProxy == "Rate limit reached, consider using or changing your proxy. Please use a different proxy."

RateLimitProxySuffix == " Please use a different proxy."

\* str.lower() on the parts of a message that are spelled with capitals
lower_part(w) ==
    CASE w = "Rate" -> "rate"
      [] w = " LIMIT" -> " limit"
      [] OTHER -> w

\* `"rate limit" in str(e).lower()`: a part is one of the rate-limit messages,
\* or two parts in a row spell the words once lowered
ContainsRateLimit(m) ==
    \/ \E i \in DOMAIN m : m[i] \in {RateLimitGeneric, RateLimitProxy}
    \/ \E i \in DOMAIN m : /\ i + 1 \in DOMAIN m
                            /\ lower_part(m[i]) = "rate"
                            /\ lower_part(m[i + 1]) = " limit"

\* `raise Exception(f"Failed to solve reCAPTCHA: {str(e)}")` in _solve
SolveWrap(m) == <<"Failed to solve reCAPTCHA: ">> \o m

\* what a Playwright TimeoutError raised by wait_for_selector(sel) says
TimeoutMsg(sel) == <<"Timeout exceeded waiting for ", sel>>

TokenNotFound == <<"Could not retrieve reCAPTCHA token">>
NoAudioURL == <<"Could not get audio URL">>

----------------------------------------------------------------------------
(* Bookkeeping shared by the steps *)

\* trace entries are <<call, outcome>> pairs
Called(s, call) == \E i \in DOMAIN trace[s] : trace[s][i][1] = call

Count(s, call) == Cardinality({ i \in DOMAIN trace[s] : trace[s][i][1] = call })

Did(s, call, outcome) == \E i \in DOMAIN trace[s] : trace[s][i] = <<call, outcome>>

Log(s, evs) == trace' = [trace EXCEPT ![s] = @ \o evs]

Jump(s, p) == pc' = [pc EXCEPT ![s] = p]

Live(s) == browser[s] = "open"

Running == { t \in Tasks : pc[t] \notin {"idle", "queued", "done"} }

\* The session call ends with outcome r: the `with sync_playwright()` block is
\* left, which stops the driver and tears down whatever was not closed; on the
\* API path the future completes and future.result() hands r to a caller that
\* is still waiting.
Finish(s, r, b, c) ==
    /\ Jump(s, "done")
    /\ result' = [result EXCEPT ![s] = r]
    /\ browser' = [browser EXCEPT ![s] = IF b = "open" THEN "killed" ELSE b]
    /\ context' = [context EXCEPT ![s] = IF c = "open" THEN "killed" ELSE c]
    /\ reply' = IF impl[s] = "api" /\ reply[s] = NoResult
                THEN [reply EXCEPT ![s] = r] ELSE reply
    /\ http' = IF impl[s] = "api" /\ reply[s] = NoResult
               THEN [http EXCEPT ![s] = create_task_returns(r)] ELSE http

\* An exception raised outside the inner try (launch, new_context, new_page):
\* sync re-raises it from the outer handler, async lets it propagate, the API
\* worker's outer handler returns an ERROR_SOLVING dictionary. The `finally`
\* with the two close() calls is not entered.
OuterFail(s, m) ==
    /\ Finish(s, IF impl[s] = "api" THEN ApiError("ERROR_SOLVING", m) ELSE Raised(m),
              browser[s], context[s])
    /\ UNCHANGED <<pending, method_i, page_tokens>>

\* variant: the finally block goes straight to the close() calls
EnterFinally_no_sleep(s) == "context_close"

\* `finally:` begins with the optional sleep
EnterFinally(s) == IF task[s].wait THEN "finally_sleep" ELSE "context_close"

\* variant: the handler re-raises the rate-limit message without looking at
\* the task's proxy
Handler_ignores_proxy(s, m) ==
    IF impl[s] = "api"
    THEN IF ContainsRateLimit(m)
         THEN ApiError("ERROR_RATE_LIMIT", <<RateLimitGeneric>>)
         ELSE ApiError("ERROR_SOLVING", m)
    ELSE IF ContainsRateLimit(m) THEN Raised(<<RateLimitGeneric>>) ELSE Raised(m)

\* the inner `except Exception as e:` of the session call
Handler(s, m) ==
    IF impl[s] = "api"
    THEN IF ContainsRateLimit(m)
         THEN ApiError("ERROR_RATE_LIMIT",
                       IF task[s].proxy THEN <<RateLimitGeneric, RateLimitProxySuffix>>
                                        ELSE <<RateLimitGeneric>>)
         ELSE ApiError("ERROR_SOLVING", m)
    ELSE IF ContainsRateLimit(m)
         THEN Raised(IF task[s].proxy THEN <<RateLimitProxy>> ELSE <<RateLimitGeneric>>)
         ELSE Raised(m)

\* variant: a failed challenge is started over once, from the checkbox
InnerFail_retries_once(s, m) ==
    IF impl[s] \in {"sync", "async"} /\ Called(s, "click_checkbox")
       /\ Count(s, "wait_anchor") < 2
    THEN /\ Jump(s, "solve")
         /\ UNCHANGED <<browser, context, pending, result, reply, method_i, page_tokens, http>>
    ELSE /\ pending' = [pending EXCEPT ![s] = Handler(s, m)]
         /\ Jump(s, EnterFinally(s))
         /\ UNCHANGED <<browser, context, result, reply, method_i, page_tokens, http>>

\* variant: a failed attempt goes straight to the close() calls
InnerFail_skips_sleep(s, m) ==
    /\ pending' = [pending EXCEPT ![s] = Handler(s, m)]
    /\ Jump(s, "context_close")
    /\ UNCHANGED <<browser, context, result, reply, method_i, page_tokens, http>>

\* An exception raised inside the inner try: handled, then `finally` runs.
InnerFail(s, m) ==
    /\ pending' = [pending EXCEPT ![s] = Handler(s, m)]
    /\ Jump(s, EnterFinally(s))
    /\ UNCHANGED <<browser, context, result, reply, method_i, page_tokens, http>>

\* A step that succeeded and moves on to position p.
Proceed(s, p) ==
    /\ Jump(s, p)
    /\ UNCHANGED <<browser, context, pending, result, reply, method_i, page_tokens, http>>

----------------------------------------------------------------------------
(* Browser set-up: the statements before the inner try *)

SiteKeyRequired == <<"Score checking requires a site key to be provided">>

\* variant: the parameter check is not made
solve_recaptcha_unchecked(s) ==
    /\ pc[s] = "call"
    /\ impl[s] \in {"sync", "async"}
    /\ Log(s, << <<"loader.start", "ok">> >>)
    /\ Proceed(s, "launch")
    /\ UNCHANGED <<impl, task, work_queue, batch, pure, audio_text, wait_timeout>>

\* solve_recaptcha's parameter check and spinner start
solve_recaptcha(s) ==
    /\ pc[s] = "call"
    /\ impl[s] \in {"sync", "async"}
    /\ IF task[s].check_score /\ ~task[s].site_key
       THEN /\ Finish(s, Raised(SiteKeyRequired), "none", "none")
            /\ UNCHANGED <<trace, pending, method_i, page_tokens>>
       ELSE /\ Log(s, << <<"loader.start", "ok">> >>)
            /\ Proceed(s, "launch")
    /\ UNCHANGED <<impl, task, work_queue, batch, pure, audio_text, wait_timeout>>

launch(s) ==
    /\ pc[s] = "launch"
    /\ \E o \in {"ok", "fault"} :
        /\ Log(s, << <<"launch", o>> >>)
        /\ IF o = "ok"
           THEN /\ Jump(s, "new_context")
                /\ browser' = [browser EXCEPT ![s] = "open"]
                /\ UNCHANGED <<context, pending, result, reply, method_i, page_tokens, http>>
           ELSE OuterFail(s, <<"launch failed">>)
    /\ UNCHANGED <<impl, task, work_queue, batch,
                   pure, audio_text, wait_timeout>>

new_context(s) ==
    /\ pc[s] = "new_context"
    /\ impl[s] \in {"sync", "async"}
    /\ \E o \in {"ok", "fault"} :
        /\ Log(s, << <<"new_context", o>> >>)
        /\ IF o = "ok"
           THEN /\ Jump(s, "new_page")
                /\ context' = [context EXCEPT ![s] = "open"]
                /\ UNCHANGED <<browser, pending, result, reply, method_i, page_tokens, http>>
           ELSE OuterFail(s, <<"new_context failed">>)
    /\ UNCHANGED <<impl, task, work_queue, batch,
                   pure, audio_text, wait_timeout>>

new_page(s) ==
    /\ pc[s] = "new_page"
    /\ \E o \in {"ok", "fault"} :
        /\ Log(s, << <<"new_page", o>> >>)
        /\ IF o = "ok"
           THEN Proceed(s, "goto")
           ELSE OuterFail(s, <<"new_page failed">>)
    /\ UNCHANGED <<impl, task, work_queue, batch,
                   pure, audio_text, wait_timeout>>

----------------------------------------------------------------------------
(* The inner try: navigation *)

goto(s) ==
    /\ pc[s] = "goto"
    /\ \E o \in {"ok", "fault"} :
        /\ Log(s, << <<"goto", o>> >>)
        /\ IF o = "ok"
           THEN Proceed(s, IF task[s].site_key THEN "set_content" ELSE "solve")
           ELSE InnerFail(s, <<"goto failed">>)
    /\ UNCHANGED <<impl, task, work_queue, batch,
                   pure, audio_text, wait_timeout>>

set_content(s) ==
    /\ pc[s] = "set_content"
    /\ \E o \in {"ok", "fault"} :
        /\ Log(s, << <<"set_content", o>> >>)
        /\ IF o = "ok"
           THEN Proceed(s, "solve")
           ELSE InnerFail(s, <<"set_content failed">>)
    /\ UNCHANGED <<impl, task, work_queue, batch,
                   pure, audio_text, wait_timeout>>

----------------------------------------------------------------------------
(* _solve and its steps (sync_solver / async_solver) *)

\* hasattr(self.page, 'proxy'): a Playwright Page has no such attribute
page_has_proxy_attr == FALSE

\* has_proxy = bool(getattr(self.page, 'proxy', None))
has_proxy == page_has_proxy_attr

\* self.page.set_default_timeout(...) in __init__: the timeout of every wait
\* that passes none, the anchor and checkbox waits among them
default_timeout == IF has_proxy THEN 20000 ELSE 8000

\* the timeouts passed to the three waits that pass one
bframe_timeout == IF has_proxy THEN 10000 ELSE 3000

audio_button_timeout == IF has_proxy THEN 5000 ELSE 2000

download_link_timeout == IF has_proxy THEN 12000 ELSE 5000

\* the message _get_audio_challenge raises when the banner reports a rate limit
InnerRateLimitMsg == IF page_has_proxy_attr THEN <<RateLimitProxy>> ELSE <<RateLimitGeneric>>

\* A banner text is a sequence of words. "Try" is the only word with a capital
\* T and " again", " later" the only continuations that spell the phrase, so
\* the phrase occurs in the characters of a text exactly when its three words
\* occur in a row.
BannerWords == {"Try", " again", " later", ", thanks", "Please", " try"}

MaxBannerLen == 4

BannerTextsUpTo(n) == UNION { [1..k -> BannerWords] : k \in 0..n }

\* what frame.locator(".rc-doscaptcha-header").text_content() meets: no such
\* element, a failing read, an element whose text is null, or a text
NoBanner == [kind |-> "absent", text |-> <<>>]

Banners == { [kind |-> k, text |-> <<>>] : k \in {"absent", "fault", "null"} }
           \cup { [kind |-> "text", text |-> w] : w \in BannerTextsUpTo(MaxBannerLen) }

TryAgainLater == <<"Try", " again", " later">>

\* Python's `needle in hay`
Contains(hay, needle) ==
    /\ Len(hay) >= Len(needle)
    /\ \E i \in 1..(Len(hay) - Len(needle) + 1) :
           SubSeq(hay, i, i + Len(needle) - 1) = needle

\* the body of the try in _check_rate_limit: text_content() raises when the
\* element never appears or the read fails; `in None` raises TypeError
rate_limit_lookup(b) ==
    CASE b.kind = "absent" -> "TimeoutError"
      [] b.kind = "fault" -> "Error"
      [] b.kind = "null" -> "TypeError"
      [] b.kind = "text" -> IF Contains(b.text, TryAgainLater) THEN "True" ELSE "False"

\* variant: the lookup without the try/except around it
check_rate_limit_unguarded(b) == rate_limit_lookup(b)

\* how a call of _check_rate_limit ends: `except: return False`
check_rate_limit_outcome(b) ==
    IF rate_limit_lookup(b) \in {"True", "False"} THEN rate_limit_lookup(b) ELSE "False"

check_rate_limit(b) == check_rate_limit_outcome(b) = "True"

\* the banners a session is run against
BannerTexts == {"absent", "Try again later", "other text"}

BannerOf(label) ==
    CASE label = "absent" -> NoBanner
      [] label = "Try again later" -> [kind |-> "text", text |-> TryAgainLater]
      [] label = "other text" -> [kind |-> "text", text |-> <<"Please", " try", " again">>]

\* variant: the per-frame strategy listed before the cross-frame scan
token_methods_misordered == <<"_get_response_token", "_get_frame_token",
                              "_get_bframe_token", "_get_enterprise_token">>

\* the order in which _get_token tries its strategies
token_methods == <<"_get_response_token", "_get_bframe_token",
                   "_get_frame_token", "_get_enterprise_token">>

TokenMethods == { token_methods[i] : i \in DOMAIN token_methods }

\* A strategy finds a non-empty value, finds nothing (null or ""), or raises;
\* _get_frame_token swallows every exception of its own.
MethodOutcomes(m) == IF m = "_get_frame_token" THEN {"token", "empty"}
                                               ELSE {"token", "empty", "raise"}

PageTokens == { f \in [TokenMethods -> {"token", "empty", "raise"}] :
                  \A m \in TokenMethods : f[m] \in MethodOutcomes(m) }

NoTokens == [m \in TokenMethods |-> "empty"]

\* the value strategy m reads when it finds one
TokenOf(m) == <<"token read by", m>>

\* _get_token is called: the page is in some state the strategies will read
EnterGetToken(s) ==
    /\ Jump(s, "get_token")
    /\ method_i' = [method_i EXCEPT ![s] = 1]
    /\ \E pt \in PageTokens : page_tokens' = [page_tokens EXCEPT ![s] = pt]
    /\ UNCHANGED <<browser, context, pending, result, reply, http>>

\* variant: a checkbox that does not appear is passed over
handle_initial_iframe_passes_over(s) ==
    /\ pc[s] = "solve"
    /\ impl[s] \in {"sync", "async"}
    /\ \E o \in {"ok", "checkbox_timeout"} :
        /\ Log(s, IF o = "ok"
                  THEN << <<"wait_anchor", "ok">>, <<"wait_checkbox", "ok">>,
                          <<"click_checkbox", "ok">> >>
                  ELSE << <<"wait_anchor", "ok">>, <<"wait_checkbox", "timeout">> >>)
        /\ Proceed(s, "challenge_iframe")
    /\ wait_timeout' = [wait_timeout EXCEPT ![s].checkbox = default_timeout]
    /\ UNCHANGED <<impl, task, work_queue, batch, pure, audio_text>>

\* _handle_initial_iframe: wait for the anchor iframe, wait for the checkbox
\* in it, click it; a wait that times out raises
handle_initial_iframe(s) ==
    /\ pc[s] = "solve"
    /\ impl[s] \in {"sync", "async"}
    /\ \E o \in {"ok", "anchor_timeout", "checkbox_timeout"} :
        CASE o = "ok" ->
               /\ Log(s, << <<"wait_anchor", "ok">>, <<"wait_checkbox", "ok">>,
                            <<"click_checkbox", "ok">> >>)
               /\ Proceed(s, "challenge_iframe")
          [] o = "anchor_timeout" ->
               /\ Log(s, << <<"wait_anchor", "timeout">> >>)
               /\ InnerFail(s, SolveWrap(TimeoutMsg("anchor iframe")))
          [] o = "checkbox_timeout" ->
               /\ Log(s, << <<"wait_anchor", "ok">>, <<"wait_checkbox", "timeout">> >>)
               /\ InnerFail(s, SolveWrap(TimeoutMsg("#recaptcha-anchor")))
    /\ wait_timeout' = [wait_timeout EXCEPT ![s].checkbox = default_timeout]
    /\ UNCHANGED <<impl, task, work_queue, batch, pure, audio_text>>

\* wait_for_selector either returns the element or raises TimeoutError;
\* content_frame() returns the frame, or None
handle_challenge_iframe(s) ==
    /\ pc[s] = "challenge_iframe"
    /\ \E o \in {"frame", "timeout", "no_frame"} :
        /\ Log(s, << <<"wait_bframe", o>> >>)
        /\ CASE o = "frame" -> Proceed(s, "audio_button")
             [] o = "timeout" -> InnerFail(s, SolveWrap(TimeoutMsg("bframe iframe")))
             [] o = "no_frame" ->
                  EnterGetToken(s)
    /\ wait_timeout' = [wait_timeout EXCEPT ![s].bframe = bframe_timeout]
    /\ UNCHANGED <<impl, task, work_queue, batch, pure, audio_text>>

\* first try block of _get_audio_challenge
audio_button(s) ==
    /\ pc[s] = "audio_button"
    /\ \E o \in {"ok", "timeout", "error"} :
        CASE o = "ok" ->
               /\ Log(s, << <<"wait_audio_button", "ok">>, <<"click_audio_button", "ok">> >>)
               /\ Proceed(s, "download_link")
          [] o = "error" ->
               /\ Log(s, << <<"wait_audio_button", "ok">>, <<"click_audio_button", "error">> >>)
               /\ InnerFail(s, SolveWrap(<<"click failed">>))
          [] o = "timeout" ->
               \E b \in BannerTexts :
                 /\ Log(s, << <<"wait_audio_button", "timeout">>, <<"check_rate_limit", b>> >>)
                 /\ IF check_rate_limit(BannerOf(b))
                    THEN InnerFail(s, SolveWrap(InnerRateLimitMsg))
                    ELSE Proceed(s, "download_link")
    /\ wait_timeout' = [wait_timeout EXCEPT ![s].audio_button = audio_button_timeout]
    /\ UNCHANGED <<impl, task, work_queue, batch, pure, audio_text>>

\* what get_attribute("href") returns: a URL, "" or None
Hrefs == {"url", "empty", "missing"}

\* variant: `if audio_url is None`
not_audio_url_none_only(h) == h = "missing"

\* `not audio_url`
not_audio_url(h) == h \in {"empty", "missing"}

\* variant: the handler re-raises without looking at the banner
download_link_timed_out_reraises(b) == TimeoutMsg(".rc-audiochallenge-tdownload-link")

\* the `except TimeoutError` of the second try block, the banner being b: the
\* rate-limit error when _check_rate_limit returns true, else a bare `raise`
download_link_timed_out(b) ==
    IF check_rate_limit(BannerOf(b))
    THEN InnerRateLimitMsg
    ELSE TimeoutMsg(".rc-audiochallenge-tdownload-link")

\* second try block of _get_audio_challenge
download_link(s) ==
    /\ pc[s] = "download_link"
    /\ \E o \in {"found", "timeout", "error"} :
        CASE o = "found" ->
               \E h \in Hrefs :
                 /\ Log(s, << <<"wait_download_link", "ok">>, <<"get_href", h>> >>)
                 /\ IF not_audio_url(h)
                    THEN InnerFail(s, SolveWrap(NoAudioURL))
                    ELSE Proceed(s, "process_audio")
          [] o = "error" ->
               /\ Log(s, << <<"wait_download_link", "ok">>, <<"get_href", "error">> >>)
               /\ InnerFail(s, SolveWrap(<<"get_attribute failed">>))
          [] o = "timeout" ->
               \E b \in BannerTexts :
                 /\ Log(s, << <<"wait_download_link", "timeout">>, <<"check_rate_limit", b>> >>)
                 /\ InnerFail(s, SolveWrap(download_link_timed_out(b)))
    /\ wait_timeout' = [wait_timeout EXCEPT ![s].download_link = download_link_timeout]
    /\ UNCHANGED <<impl, task, work_queue, batch, pure, audio_text>>

\* The characters texts are made of: a lowercase letter, an uppercase letter,
\* a digit, a space, a tab and a punctuation mark.
Chars == {"a", "A", "1", " ", "\t", "."}

MaxTextLen == 3

TextsUpTo(n) == UNION { [1..k -> Chars] : k \in 0..n }

isalnum(c) == c \in {"a", "A", "1"}

isspace(c) == c \in {" ", "\t"}

lower(c) == IF c = "A" THEN "a" ELSE c

\* ''.join(c.lower() for c in text if c.isalnum() or c.isspace())
RECURSIVE join_kept(_)
join_kept(t) ==
    IF t = <<>> THEN <<>>
    ELSE (IF isalnum(Head(t)) \/ isspace(Head(t)) THEN <<lower(Head(t))>> ELSE <<>>)
         \o join_kept(Tail(t))

RECURSIVE lstrip(_)
lstrip(t) == IF t # <<>> /\ isspace(Head(t)) THEN lstrip(Tail(t)) ELSE t

RECURSIVE rstrip(_)
rstrip(t) == IF t # <<>> /\ isspace(t[Len(t)]) THEN rstrip(SubSeq(t, 1, Len(t) - 1)) ELSE t

\* str.strip()
strip(t) == rstrip(lstrip(t))

CouldNotUnderstand == <<"Could not understand audio">>

\* variant: the emptiness test is made on the stripped text
convert_audio_to_text_strip_first(t) ==
    IF strip(join_kept(t)) = <<>>
    THEN [kind |-> "raise", text |-> <<>>]
    ELSE [kind |-> "return", text |-> strip(join_kept(t))]

\* _convert_audio_to_text on the text the recogniser returned: the cleaned
\* text is tested for emptiness, then returned stripped
convert_audio_to_text(t) ==
    IF join_kept(t) = <<>>
    THEN [kind |-> "raise", text |-> <<>>]
    ELSE [kind |-> "return", text |-> strip(join_kept(t))]

\* what the recogniser returns in the sessions: words, a lone space, a lone
\* punctuation mark
RecognisedTexts == { <<"A", " ", "1">>, <<" ">>, <<".">> }

\* audio_processor.process_audio(audio_url): download, conversion, recognition
process_audio(s) ==
    /\ pc[s] = "process_audio"
    /\ \E o \in {"recognised", "download_failed", "not_understood"} :
        CASE o = "recognised" ->
               \E t \in RecognisedTexts :
                 IF convert_audio_to_text(t).kind = "return"
                 THEN /\ Log(s, << <<"process_audio", "text">> >>)
                      /\ audio_text' = [audio_text EXCEPT ![s] = convert_audio_to_text(t).text]
                      /\ Proceed(s, "submit")
                 ELSE /\ Log(s, << <<"process_audio", "not_understood">> >>)
                      /\ InnerFail(s, SolveWrap(CouldNotUnderstand))
                      /\ UNCHANGED audio_text
          [] o = "download_failed" ->
               /\ Log(s, << <<"process_audio", "download_failed">> >>)
               /\ InnerFail(s, SolveWrap(<<"Failed to download audio file">>))
               /\ UNCHANGED audio_text
          [] o = "not_understood" ->
               /\ Log(s, << <<"process_audio", "not_understood">> >>)
               /\ InnerFail(s, SolveWrap(CouldNotUnderstand))
               /\ UNCHANGED audio_text
    /\ UNCHANGED <<impl, task, work_queue, batch, pure, wait_timeout>>

submit_audio_solution(s) ==
    /\ pc[s] = "submit"
    /\ \E o \in {"ok", "input_timeout", "verify_timeout"} :
        CASE o = "ok" ->
               /\ Log(s, << <<"fill_answer", "ok">>, <<"click_verify", "ok">> >>)
               /\ EnterGetToken(s)
          [] o = "input_timeout" ->
               /\ Log(s, << <<"fill_answer", "timeout">> >>)
               /\ InnerFail(s, SolveWrap(TimeoutMsg("#audio-response")))
          [] o = "verify_timeout" ->
               /\ Log(s, << <<"fill_answer", "ok">>, <<"click_verify", "timeout">> >>)
               /\ InnerFail(s, SolveWrap(TimeoutMsg("#recaptcha-verify-button")))
    /\ UNCHANGED <<impl, task, work_queue, batch,
                   pure, audio_text, wait_timeout>>

\* variant: the loop falls off its end and returns None instead of raising
get_token_returns_none(s) ==
    /\ pc[s] = "get_token"
    /\ LET m == token_methods[method_i[s]]
           o == page_tokens[s][m]
       IN /\ Log(s, << <<m, o>> >>)
          /\ IF o = "token" \/ method_i[s] = Len(token_methods)
             THEN /\ pending' = [pending EXCEPT ![s] =
                                   Returned(IF o = "token" THEN TokenOf(m) ELSE <<>>, "none")]
                  /\ Jump(s, IF task[s].check_score THEN "check_score" ELSE EnterFinally(s))
                  /\ UNCHANGED <<browser, context, result, reply, method_i, page_tokens, http>>
             ELSE /\ method_i' = [method_i EXCEPT ![s] = @ + 1]
                  /\ UNCHANGED <<pc, browser, context, pending, result, reply, page_tokens, http>>
    /\ UNCHANGED <<impl, task, work_queue, batch,
                   pure, audio_text, wait_timeout>>

\* variant: the score is requested whether or not the task asks for it
get_token_always_scores(s) ==
    /\ pc[s] = "get_token"
    /\ LET m == token_methods[method_i[s]]
           o == page_tokens[s][m]
       IN /\ Log(s, << <<m, o>> >>)
          /\ IF o = "token"
             THEN /\ pending' = [pending EXCEPT ![s] = Returned(TokenOf(m), "none")]
                  /\ Jump(s, "check_score")
                  /\ UNCHANGED <<browser, context, result, reply, method_i, page_tokens, http>>
             ELSE IF method_i[s] < Len(token_methods)
                  THEN /\ method_i' = [method_i EXCEPT ![s] = @ + 1]
                       /\ UNCHANGED <<pc, browser, context, pending, result, reply, page_tokens, http>>
                  ELSE InnerFail(s, SolveWrap(TokenNotFound))
    /\ UNCHANGED <<impl, task, work_queue, batch,
                   pure, audio_text, wait_timeout>>

\* one iteration of _get_token's loop over token_methods
get_token(s) ==
    /\ pc[s] = "get_token"
    /\ LET m == token_methods[method_i[s]]
           o == page_tokens[s][m]
       IN /\ Log(s, << <<m, o>> >>)
          /\ IF o = "token"
             THEN /\ pending' = [pending EXCEPT ![s] = Returned(TokenOf(m), "none")]
                  /\ Jump(s, IF task[s].check_score THEN "check_score" ELSE EnterFinally(s))
                  /\ UNCHANGED <<browser, context, result, reply, method_i, page_tokens, http>>
             ELSE IF method_i[s] < Len(token_methods)
                  THEN /\ method_i' = [method_i EXCEPT ![s] = @ + 1]
                       /\ UNCHANGED <<pc, browser, context, pending, result, reply, page_tokens, http>>
                  ELSE InnerFail(s, SolveWrap(TokenNotFound))
    /\ UNCHANGED <<impl, task, work_queue, batch,
                   pure, audio_text, wait_timeout>>

\* what the score request meets: a JSON object with riskAnalysis.score, a JSON
\* object without that field, a body that is not JSON, or no response at all
ScoreResponses == {"score", "no_score_field", "not_json", "network_error"}

\* the try around the request: requests.post and response.json() raise on a
\* network error and on a non-JSON body, and the except sets "Unknown";
\* result.get("riskAnalysis", {}).get("score") on an object without the field
\* raises nothing and gives None
score_of(o) ==
    CASE o = "score" -> "0.9"
      [] o = "no_score_field" -> "None"
      [] o = "not_json" -> "Unknown"
      [] o = "network_error" -> "Unknown"

\* variant: the score is requested once the context has been closed
check_score_after_close(s) ==
    /\ pc[s] = "check_score"
    /\ \E o \in ScoreResponses :
        /\ Log(s, << <<"context.close", "ok">>, <<"score_post", o>> >>)
        /\ pending' = [pending EXCEPT ![s].score = score_of(o)]
    /\ context' = [context EXCEPT ![s] = "closed"]
    /\ Jump(s, "browser_close")
    /\ UNCHANGED <<impl, task, browser, result, reply, method_i, page_tokens,
                   work_queue, batch, pure, audio_text, wait_timeout, http>>

\* the score request after a token was obtained
check_score(s) ==
    /\ pc[s] = "check_score"
    /\ \E o \in ScoreResponses :
        /\ Log(s, << <<"score_post", o>> >>)
        /\ pending' = [pending EXCEPT ![s].score = score_of(o)]
    /\ Jump(s, EnterFinally(s))
    /\ UNCHANGED <<impl, task, browser, context, result, reply, method_i, page_tokens,
                   work_queue, batch,
                   pure, audio_text, wait_timeout, http>>

----------------------------------------------------------------------------
(* finally: optional sleep, context.close(), browser.close() *)

finally_sleep(s) ==
    /\ pc[s] = "finally_sleep"
    /\ Log(s, << <<"sleep", "ok">> >>)
    /\ Proceed(s, "context_close")
    /\ UNCHANGED <<impl, task, work_queue, batch,
                   pure, audio_text, wait_timeout>>

context_close(s) ==
    /\ pc[s] = "context_close"
    /\ Log(s, << <<"context.close", "ok">> >>)
    /\ context' = [context EXCEPT ![s] = "closed"]
    /\ Jump(s, "browser_close")
    /\ UNCHANGED <<impl, task, browser, pending, result, reply, method_i, page_tokens,
                   work_queue, batch,
                   pure, audio_text, wait_timeout, http>>

\* browser.close(), after which the pending return or raise completes
browser_close(s) ==
    /\ pc[s] = "browser_close"
    /\ Log(s, << <<"browser.close", "ok">> >>)
    /\ Finish(s, pending[s], "closed", context[s])
    /\ UNCHANGED <<impl, task, pending, method_i, page_tokens, work_queue, batch,
                   pure, audio_text, wait_timeout>>

----------------------------------------------------------------------------
(* api_solver: the worker body and the executor *)

\* browser.new_context(**context_options) and context.new_page() in the worker
api_new_context(t) ==
    /\ pc[t] = "new_context"
    /\ impl[t] = "api"
    /\ \E o \in {"ok", "context_fault", "page_fault"} :
        CASE o = "ok" ->
               /\ Log(t, << <<"new_context", "ok">>, <<"new_page", "ok">> >>)
               /\ Jump(t, "try")
               /\ context' = [context EXCEPT ![t] = "open"]
               /\ UNCHANGED <<browser, pending, result, reply, method_i, page_tokens, http>>
          [] o = "context_fault" ->
               /\ Log(t, << <<"new_context", "fault">> >>)
               /\ OuterFail(t, <<"new_context failed">>)
          [] o = "page_fault" ->
               /\ Log(t, << <<"new_context", "ok">>, <<"new_page", "fault">> >>)
               /\ Finish(t, ApiError("ERROR_SOLVING", <<"new_page failed">>), browser[t], "open")
               /\ UNCHANGED <<pending, method_i, page_tokens>>
    /\ UNCHANGED <<impl, task, work_queue, batch,
                   pure, audio_text, wait_timeout>>

\* The inner try of the worker: goto, set_content, then
\* `solver = ReCaptchaSolver(page, ...); token = solver.solve()`. solve is an
\* `async def` called without await from the synchronous worker, so the call
\* runs none of its body and yields a coroutine object; the result dictionary
\* is built around it. The score request cannot serialise that object, which
\* the handler around it turns into "Unknown".
api_try(t) ==
    /\ pc[t] = "try"
    /\ impl[t] = "api"
    /\ \E o \in {"ok", "goto_fault", "set_content_fault"} :
        CASE o = "ok" ->
               /\ Log(t, << <<"goto", "ok">>, <<"set_content", "ok">>,
                            <<"solver.solve", "coroutine">> >>)
               /\ pending' = [pending EXCEPT ![t] =
                                 ApiReady(<<"coroutine object">>,
                                          IF task[t].check_score THEN "Unknown" ELSE "none")]
          [] o = "goto_fault" ->
               /\ Log(t, << <<"goto", "fault">> >>)
               /\ pending' = [pending EXCEPT ![t] = Handler(t, <<"goto failed">>)]
          [] o = "set_content_fault" ->
               /\ Log(t, << <<"goto", "ok">>, <<"set_content", "fault">> >>)
               /\ pending' = [pending EXCEPT ![t] = Handler(t, <<"set_content failed">>)]
    /\ Jump(t, "finally")
    /\ UNCHANGED <<impl, task, browser, context, result, reply, method_i, page_tokens,
                   work_queue, batch,
                   pure, audio_text, wait_timeout, http>>

\* the worker's finally: the sleep, context.close(), browser.close(); then the
\* worker returns and the future completes
api_finally(t) ==
    /\ pc[t] = "finally"
    /\ impl[t] = "api"
    /\ Log(t, (IF task[t].wait THEN << <<"sleep", "ok">> >> ELSE <<>>)
              \o << <<"context.close", "ok">>, <<"browser.close", "ok">> >>)
    /\ Finish(t, pending[t], "closed", "closed")
    /\ UNCHANGED <<impl, task, pending, method_i, page_tokens, work_queue, batch,
                   pure, audio_text, wait_timeout>>

\* APIHandler.solve_captcha: executor.submit(...), then wait on future.result
solve_captcha(t) ==
    /\ pc[t] = "idle"
    /\ impl[t] = "api"
    /\ \A u \in Tasks : u < t => pc[u] # "idle"
    /\ \E d \in ApiTaskData : task' = [task EXCEPT ![t] = d]
    /\ Jump(t, "queued")
    /\ work_queue' = Append(work_queue, t)
    /\ UNCHANGED <<impl, browser, context, pending, result, reply, method_i, page_tokens,
                   trace, batch,
                   pure, audio_text, wait_timeout, http>>

\* variant: threads are started without regard to max_workers
worker_start_unbounded(t) ==
    /\ work_queue # <<>>
    /\ t = Head(work_queue)
    /\ work_queue' = Tail(work_queue)
    /\ Jump(t, "launch")
    /\ Log(t, << <<"loader.start", "ok">> >>)
    /\ UNCHANGED <<impl, task, browser, context, pending, result, reply, method_i,
                   page_tokens, batch,
                   pure, audio_text, wait_timeout, http>>

\* variant: a worker that ran a job is never handed another one
worker_start_slot_not_returned(t) ==
    /\ work_queue # <<>>
    /\ t = Head(work_queue)
    /\ Cardinality({ u \in Tasks : pc[u] \notin {"idle", "queued"} }) < MaxConcurrent
    /\ work_queue' = Tail(work_queue)
    /\ Jump(t, "launch")
    /\ Log(t, << <<"loader.start", "ok">> >>)
    /\ UNCHANGED <<impl, task, browser, context, pending, result, reply, method_i,
                   page_tokens, batch,
                   pure, audio_text, wait_timeout, http>>

\* a worker thread of the pool takes the oldest queued job and enters
\* _sync_solve_captcha, which starts its spinner; the pool never has more than
\* max_workers threads
worker_start(t) ==
    /\ work_queue # <<>>
    /\ t = Head(work_queue)
    /\ Cardinality(Running) < MaxConcurrent
    /\ work_queue' = Tail(work_queue)
    /\ Jump(t, "launch")
    /\ Log(t, << <<"loader.start", "ok">> >>)
    /\ UNCHANGED <<impl, task, browser, context, pending, result, reply, method_i,
                   page_tokens, batch,
                   pure, audio_text, wait_timeout, http>>

TimeoutReply == ApiError("ERROR_SOLVING", <<>>)

\* requests without websiteURL or without websiteKey
ApiRejectedData ==
    { d \in TaskParams : (~d.url \/ ~d.site_key) /\ d.check_score /\ ~d.proxy /\ d.wait }

MissingFields == <<"Missing required fields: websiteURL and websiteKey">>

\* variant: the job is handed to the executor before the fields are checked
create_task_rejects_after_submit(t) ==
    /\ pc[t] = "idle"
    /\ impl[t] = "api"
    /\ \A u \in Tasks : u < t => pc[u] # "idle"
    /\ \E d \in ApiRejectedData : task' = [task EXCEPT ![t] = d]
    /\ Jump(t, "queued")
    /\ work_queue' = Append(work_queue, t)
    /\ reply' = [reply EXCEPT ![t] = ApiError("ERROR_PARAMETER", MissingFields)]
    /\ http' = [http EXCEPT ![t] = Response(400, ApiError("ERROR_PARAMETER", MissingFields))]
    /\ UNCHANGED <<impl, browser, context, pending, result, method_i, page_tokens, trace,
                   batch, pure, audio_text, wait_timeout>>

\* the /createTask route turns a request without websiteURL or websiteKey away with
\* ERROR_PARAMETER; api_handler.solve_captcha is not called
create_task_rejects(t) ==
    /\ pc[t] = "idle"
    /\ impl[t] = "api"
    /\ \A u \in Tasks : u < t => pc[u] # "idle"
    /\ \E d \in ApiRejectedData : task' = [task EXCEPT ![t] = d]
    /\ Jump(t, "done")
    /\ reply' = [reply EXCEPT ![t] = ApiError("ERROR_PARAMETER", MissingFields)]
    /\ http' = [http EXCEPT ![t] = Response(400, ApiError("ERROR_PARAMETER", MissingFields))]
    /\ UNCHANGED <<impl, browser, context, pending, result, method_i, page_tokens, trace,
                   work_queue, batch, pure, audio_text, wait_timeout>>

\* variant: the timeout handler shuts the executor down, dropping queued jobs
result_timeout_drops_queue(t) ==
    /\ pc[t] \notin {"idle", "done"}
    /\ impl[t] = "api"
    /\ reply[t] = NoResult
    /\ reply' = [reply EXCEPT ![t] = TimeoutReply]
    /\ http' = [http EXCEPT ![t] = create_task_returns(TimeoutReply)]
    /\ work_queue' = <<>>
    /\ UNCHANGED <<impl, task, pc, browser, context, pending, result, method_i,
                   page_tokens, trace, batch,
                   pure, audio_text, wait_timeout>>

\* variant: no except around the wait on the future
result_timeout_raises(t) ==
    /\ pc[t] \notin {"idle", "done"}
    /\ impl[t] = "api"
    /\ reply[t] = NoResult
    /\ reply' = [reply EXCEPT ![t] = Raised(<<"TimeoutError">>)]
    /\ http' = [http EXCEPT ![t] = create_task_returns(Raised(<<"TimeoutError">>))]
    /\ UNCHANGED <<impl, task, pc, browser, context, pending, result, method_i,
                   page_tokens, trace, work_queue, batch, pure, audio_text, wait_timeout>>

\* variant: on expiry the future is cancelled, and a job still queued never runs
result_timeout_cancels(t) ==
    /\ pc[t] \notin {"idle", "done"}
    /\ impl[t] = "api"
    /\ reply[t] = NoResult
    /\ reply' = [reply EXCEPT ![t] = TimeoutReply]
    /\ http' = [http EXCEPT ![t] = create_task_returns(TimeoutReply)]
    /\ IF pc[t] = "queued"
       THEN /\ Jump(t, "done")
            /\ work_queue' = SelectSeq(work_queue, LAMBDA u : u # t)
       ELSE UNCHANGED <<pc, work_queue>>
    /\ UNCHANGED <<impl, task, browser, context, pending, result, method_i,
                   page_tokens, trace, batch, pure, audio_text, wait_timeout>>

\* future.result(TIMEOUT) gives up: the handler of solve_captcha returns an
\* error dictionary; the future is not cancelled
result_timeout(t) ==
    /\ pc[t] \notin {"idle", "done"}
    /\ impl[t] = "api"
    /\ reply[t] = NoResult
    /\ reply' = [reply EXCEPT ![t] = TimeoutReply]
    /\ http' = [http EXCEPT ![t] = create_task_returns(TimeoutReply)]
    /\ UNCHANGED <<impl, task, pc, browser, context, pending, result, method_i,
                   page_tokens, trace, work_queue, batch,
                   pure, audio_text, wait_timeout>>

----------------------------------------------------------------------------
(* Specifications *)

InitCommon ==
    /\ browser = [t \in Tasks |-> "none"]
    /\ context = [t \in Tasks |-> "none"]
    /\ method_i = [t \in Tasks |-> 0]
    /\ page_tokens = [t \in Tasks |-> NoTokens]
    /\ pending = [t \in Tasks |-> NoResult]
    /\ result = [t \in Tasks |-> NoResult]
    /\ reply = [t \in Tasks |-> NoResult]
    /\ http = [t \in Tasks |-> NoResponse]
    /\ trace = [t \in Tasks |-> <<>>]
    /\ work_queue = <<>>
    /\ completed = <<>>
    /\ returned = <<>>
    /\ audio_text = [t \in Tasks |-> <<>>]
    /\ wait_timeout = [t \in Tasks |-> NoWaits]

\* no single-function call is under way
NoCalls ==
    /\ rate_limit_message = NoBanner
    /\ rate_limited = "none"
    /\ text = <<>>
    /\ cleaned_text = NoText
    /\ frames = <<>>
    /\ frame_token = NotCalled
    /\ raised = NoError

\* no session exists
NoSessions ==
    /\ InitCommon
    /\ impl = [t \in Tasks |-> "none"]
    /\ task = [t \in Tasks |-> NoTask]
    /\ pc = [t \in Tasks |-> "idle"]

\* the API server: api_handler = APIHandler(MAX_CONCURRENT), no request yet
Init ==
    /\ InitCommon
    /\ NoCalls
    /\ impl = [t \in Tasks |-> "api"]
    /\ task = [t \in Tasks |-> NoTask]
    /\ pc = [t \in Tasks |-> "idle"]

WorkerStep(t) == launch(t) \/ api_new_context(t) \/ api_try(t) \/ api_finally(t)

Next ==
    \E t \in Tasks :
        \/ solve_captcha(t)
        \/ worker_start(t)
        \/ WorkerStep(t)
        \/ result_timeout(t)

Spec == Init /\ [][Next]_vars

\* worker threads are scheduled fairly
FairSpec == Spec /\ \A t \in Tasks : WF_vars(worker_start(t) \/ WorkerStep(t))

\* one direct call of solve_recaptcha on session 1, sync or async
SessionInit ==
    /\ InitCommon
    /\ NoCalls
    /\ \E i \in {"sync", "async"} : impl = [t \in Tasks |-> IF t = 1 THEN i ELSE "none"]
    /\ \E d \in SessionTasks : task = [t \in Tasks |-> IF t = 1 THEN d ELSE NoTask]
    /\ pc = [t \in Tasks |-> IF t = 1 THEN "call" ELSE "idle"]

\* one step of the session s
SessionStep(s) ==
    \/ solve_recaptcha(s)
    \/ launch(s) \/ new_context(s) \/ new_page(s)
    \/ goto(s) \/ set_content(s)
    \/ handle_initial_iframe(s) \/ handle_challenge_iframe(s)
    \/ audio_button(s) \/ download_link(s)
    \/ process_audio(s) \/ submit_audio_solution(s)
    \/ get_token(s) \/ check_score(s)
    \/ finally_sleep(s) \/ context_close(s) \/ browser_close(s)

SessionNext == \E s \in Tasks : SessionStep(s)

SessionSpec == SessionInit /\ [][SessionNext]_vars

----------------------------------------------------------------------------
(* The batch pool (CaptchaSolverPool / AsyncCaptchaSolverPool.solve_multiple). *)
(* main.py calls it; its body is modelled from the design of the pool: a      *)
(* counting gate of max_workers slots, one session per admitted task, results *)
(* collected by task index and returned in task order once all have ended.    *)

\* what a session of the batch ends with: a token, an error or its timeout
BatchOutcomes(t) == { Returned(<<"token of task", t>>, "none"),
                      Raised(<<"error of task", t>>),
                      Raised(<<"timeout of task", t>>) }

\* a queued task passes the gate and its session is created
pool_acquire(t) ==
    /\ pc[t] = "queued"
    /\ impl[t] = "pool"
    /\ Cardinality(Running) < MaxConcurrent
    /\ Jump(t, "session")
    /\ browser' = [browser EXCEPT ![t] = "open"]
    /\ UNCHANGED <<impl, task, context, pending, result, reply, method_i, page_tokens,
                   trace, work_queue, batch,
                   pure, audio_text, wait_timeout, http>>

\* the session reaches a terminal state, releases its browser and its slot
pool_session_end(t) ==
    /\ pc[t] = "session"
    /\ impl[t] = "pool"
    /\ \E r \in BatchOutcomes(t) : result' = [result EXCEPT ![t] = r]
    /\ Jump(t, "done")
    /\ browser' = [browser EXCEPT ![t] = "closed"]
    /\ completed' = Append(completed, t)
    /\ UNCHANGED <<impl, task, context, pending, reply, method_i, page_tokens, trace,
                   work_queue, returned,
                   pure, audio_text, wait_timeout, http>>

\* variant: the list is built in the order the sessions ended
pool_return_completion_order ==
    /\ returned = <<>>
    /\ \A t \in Tasks : impl[t] = "pool" /\ pc[t] = "done"
    /\ returned' = [k \in 1..Len(completed) |-> <<completed[k], result[completed[k]]>>]
    /\ UNCHANGED <<impl, task, pc, browser, context, pending, result, reply, method_i,
                   page_tokens, trace, work_queue, completed,
                   pure, audio_text, wait_timeout, http>>

\* all sessions have ended: the (task, outcome) list in task order
pool_return ==
    /\ returned = <<>>
    /\ \A t \in Tasks : impl[t] = "pool" /\ pc[t] = "done"
    /\ returned' = [i \in 1..NumTasks |-> <<i, result[i]>>]
    /\ UNCHANGED <<impl, task, pc, browser, context, pending, result, reply, method_i,
                   page_tokens, trace, work_queue, completed,
                   pure, audio_text, wait_timeout, http>>

\* solve_multiple(tasks) has been called with NumTasks tasks
PoolInit ==
    /\ InitCommon
    /\ NoCalls
    /\ impl = [t \in Tasks |-> "pool"]
    /\ \E d \in SessionTasks : task = [t \in Tasks |-> d]
    /\ pc = [t \in Tasks |-> "queued"]

PoolNext ==
    \/ \E t \in Tasks : pool_acquire(t) \/ pool_session_end(t)
    \/ pool_return

PoolSpec == PoolInit /\ [][PoolNext]_vars

----------------------------------------------------------------------------
(* Properties *)

LiveSessions == { t \in Tasks : Live(t) }

\* C1: the number of sessions that are live at the same time (browser launched
\* and not yet closed) never exceeds the configured maximum of the executor.
C1_LiveSessionsBounded == Cardinality(LiveSessions) <= MaxConcurrent

\* the maximum is reached while a further job waits in the queue
C1_Witness == Cardinality(LiveSessions) = MaxConcurrent /\ work_queue # <<>>

\* C2: the list a batch returns has one entry per task and entry i is the
\* outcome of task i, whatever the order in which the sessions ended.
C2_ResultsInTaskOrder ==
    returned # <<>> =>
        /\ Len(returned) = NumTasks
        /\ \A i \in 1..Len(returned) :
              /\ returned[i][1] = i
              /\ returned[i][2] \in BatchOutcomes(i)

\* a batch has returned whose sessions ended in another order than submitted
C2_Witness ==
    /\ returned # <<>>
    /\ \E k \in 1..(Len(completed) - 1) : completed[k] > completed[k + 1]

\* C3 (as claimed): on every exit path after launch, the fault paths of
\* context and page creation included, context and browser are closed exactly once.
C3_ReleasedExactlyOnce ==
    \A s \in Tasks :
        (pc[s] = "done" /\ Did(s, "launch", "ok")) =>
            /\ Count(s, "browser.close") = 1
            /\ Did(s, "new_context", "ok") => Count(s, "context.close") = 1

\* C4 (as claimed): a timeout of the wait for the challenge iframe is taken as
\* "no challenge", token extraction follows and the timeout is not the error reported.
C4_TimeoutMeansNoChallenge ==
    \A s \in Tasks :
        (pc[s] = "done" /\ Did(s, "wait_bframe", "timeout")) =>
            /\ Called(s, "_get_response_token")
            /\ result[s] # Raised(SolveWrap(TimeoutMsg("bframe iframe")))

\* C5 (as claimed): once the per-task timeout has been reported the task holds
\* no concurrency slot and its browser has been released.
C5_TimedOutTaskHoldsNoSlot ==
    \A t \in Tasks :
        reply[t] = TimeoutReply => t \notin Running /\ ~Live(t)

\* what the worker returns, as a function of the task's own collaborator responses
ExpectedApiResult(t) ==
    CASE Did(t, "launch", "fault") -> ApiError("ERROR_SOLVING", <<"launch failed">>)
      [] Did(t, "new_context", "fault") -> ApiError("ERROR_SOLVING", <<"new_context failed">>)
      [] Did(t, "new_page", "fault") -> ApiError("ERROR_SOLVING", <<"new_page failed">>)
      [] Did(t, "goto", "fault") -> ApiError("ERROR_SOLVING", <<"goto failed">>)
      [] Did(t, "set_content", "fault") -> ApiError("ERROR_SOLVING", <<"set_content failed">>)
      [] OTHER -> ApiReady(<<"coroutine object">>,
                           IF task[t].check_score THEN "Unknown" ELSE "none")

TaskState(t) == <<pc[t], browser[t], context[t], pending[t], result[t], reply[t],
                  trace[t], task[t]>>

QueuedTasks == { work_queue[i] : i \in DOMAIN work_queue }

C7_EveryRequestAnswered ==
    /\ <>[](\A t \in Tasks :
               pc[t] # "idle" => (reply[t] # NoResult /\ pc[t] # "queued"))
    /\ [][\A t \in Tasks : reply[t] # NoResult => reply'[t] = reply[t]]_vars
    /\ [][\A t \in Tasks : (pc[t] # "queued" /\ pc[t] # "idle") => pc'[t] # "queued"]_vars

\* all requests answered, one of which had to wait for a worker
C7_Witness ==
    /\ \A t \in Tasks : pc[t] = "done" /\ reply[t] # NoResult
    /\ \E t \in Tasks : reply[t] = result[t] /\ result[t].ok

\* C8 (as claimed): success is reported only when the token extractor ran for
\* the session and returned a non-empty token, which is the token reported.
C8_SuccessMeansExtractedToken ==
    \A t \in Tasks :
        result[t].ok =>
            \E m \in TokenMethods : Did(t, m, "token") /\ result[t].token = TokenOf(m)

\* the priority order of the extraction strategies: response field, cross-frame
\* scan, per-frame evaluation, enterprise element
PriorityOrder == <<"_get_response_token", "_get_bframe_token",
                   "_get_frame_token", "_get_enterprise_token">>

\* index of the first strategy in priority order that finds a token; 0 if none
FirstYielding(pt) ==
    IF \E i \in DOMAIN PriorityOrder : pt[PriorityOrder[i]] = "token"
    THEN CHOOSE i \in DOMAIN PriorityOrder :
            /\ pt[PriorityOrder[i]] = "token"
            /\ \A j \in 1..(i - 1) : pt[PriorityOrder[j]] # "token"
    ELSE 0

\* the strategies a session invoked, in order
InvokedMethods(s) ==
    LET calls == SelectSeq(trace[s], LAMBDA e : e[1] \in TokenMethods)
    IN [i \in 1..Len(calls) |-> calls[i][1]]

\* C9: the strategies are tried in the fixed priority order; the value of the
\* first one that finds a token is returned even when later ones would find
\* one too; a strategy that raises or finds nothing is skipped; none is
\* invoked after the first successful one.
C9_FirstSuccessfulStrategyWins ==
    \A s \in Tasks :
        LET inv == InvokedMethods(s)
            k == FirstYielding(page_tokens[s])
        IN /\ Len(inv) <= Len(PriorityOrder)
           /\ inv = SubSeq(PriorityOrder, 1, Len(inv))
           /\ (Len(inv) > 0 /\ pc[s] # "get_token") =>
                 IF k > 0
                 THEN /\ inv = SubSeq(PriorityOrder, 1, k)
                      /\ pending[s].ok
                      /\ pending[s].token = TokenOf(PriorityOrder[k])
                 ELSE /\ inv = PriorityOrder
                      /\ ~pending[s].ok

\* the first strategy raised, the second found a token and so would the two
\* after it: the second one's value was returned
C9_Witness ==
    \E s \in Tasks :
        /\ pc[s] = "done"
        /\ page_tokens[s] = [m \in TokenMethods |->
                                IF m = "_get_response_token" THEN "raise" ELSE "token"]
        /\ result[s].token = TokenOf("_get_bframe_token")

AllStrategiesFailed(s) ==
    \A m \in TokenMethods : Did(s, m, "empty") \/ Did(s, m, "raise")

\* C10: when all four strategies find nothing or fail, the session ends in
\* failure with the token-not-found error and no token.
C10_TokenNotFound ==
    \A s \in Tasks :
        AllStrategiesFailed(s) =>
            /\ pending[s] = Raised(SolveWrap(TokenNotFound))
            /\ pc[s] = "done" =>
                  /\ ~result[s].ok
                  /\ result[s].token = <<>>
                  /\ result[s].msg = SolveWrap(TokenNotFound)

\* a session that submitted an answer and then found no token has ended
C10_Witness ==
    \E s \in Tasks :
        /\ pc[s] = "done"
        /\ AllStrategiesFailed(s)
        /\ Did(s, "click_verify", "ok")

----------------------------------------------------------------------------
(* Rate-limit reporting *)

\* the wait for the audio button timed out and the banner read at that moment
\* said "Try again later"
AudioButtonRateLimited(s) ==
    \E i \in DOMAIN trace[s] :
        /\ trace[s][i] = <<"wait_audio_button", "timeout">>
        /\ i + 1 \in DOMAIN trace[s]
        /\ trace[s][i + 1] = <<"check_rate_limit", "Try again later">>

\* the text contains "different proxy"
MentionsDifferentProxy(m) ==
    \E i \in DOMAIN m : m[i] \in {RateLimitProxy, RateLimitProxySuffix}

\* C11: after an audio-button timeout with the banner saying "Try again later"
\* the session fails with a rate-limit error; the message mentions a different
\* proxy exactly when the task has a proxy, and is the generic one otherwise.
C11_RateLimitMessageFollowsProxy ==
    \A s \in Tasks :
        (pc[s] = "done" /\ AudioButtonRateLimited(s)) =>
            /\ ~result[s].ok
            /\ ContainsRateLimit(result[s].msg)
            /\ MentionsDifferentProxy(result[s].msg) <=> task[s].proxy
            /\ ~task[s].proxy => result[s].msg = <<RateLimitGeneric>>

\* a session with a proxy was rate limited at the audio button and ended with
\* the "different proxy" message
C11_Witness ==
    \E s \in Tasks :
        /\ pc[s] = "done"
        /\ AudioButtonRateLimited(s)
        /\ task[s].proxy
        /\ result[s].msg = <<RateLimitProxy>>

\* the wait for the audio button timed out and the banner read at that moment
\* did not report a rate limit
AudioButtonTimedOutNoRateLimit(s) ==
    \E i \in DOMAIN trace[s] :
        /\ trace[s][i] = <<"wait_audio_button", "timeout">>
        /\ i + 1 \in DOMAIN trace[s]
        /\ trace[s][i + 1][1] = "check_rate_limit"
        /\ trace[s][i + 1][2] # "Try again later"

\* C12 (as claimed): an audio-button timeout without a rate limit fails the
\* session at that step; the download-link wait, the transcription, the answer
\* submission and the token extraction are not performed afterwards.
C12_AudioButtonTimeoutStopsSession ==
    \A s \in Tasks :
        AudioButtonTimedOutNoRateLimit(s) =>
            /\ ~Called(s, "wait_download_link")
            /\ ~Called(s, "process_audio")
            /\ ~Called(s, "fill_answer")
            /\ \A m \in TokenMethods : ~Called(s, m)
            /\ ~pending[s].ok

----------------------------------------------------------------------------
(* _check_rate_limit on its own: one call against an arbitrary banner *)

RateLimitInit ==
    /\ NoSessions
    /\ rate_limit_message \in Banners
    /\ rate_limited = "none"
    /\ text = <<>>
    /\ cleaned_text = NoText
    /\ frames = <<>>
    /\ frame_token = NotCalled
    /\ raised = NoError

\* self._check_rate_limit(frame)
check_rate_limit_call ==
    /\ rate_limited = "none"
    /\ rate_limited' = check_rate_limit_outcome(rate_limit_message)
    /\ UNCHANGED <<impl, task, pc, browser, context, method_i, page_tokens, pending, result,
                   trace, work_queue, reply, batch, audio_text, wait_timeout,
                   rate_limit_message, text, cleaned_text, http, raised, frames, frame_token>>

RateLimitSpec == RateLimitInit /\ [][check_rate_limit_call]_vars

\* the text is some words, then "Try again later", then some words
HasTryAgainLater(w) ==
    \E i \in 0..Len(w) :
        /\ i + 3 <= Len(w)
        /\ w[i + 1] = "Try" /\ w[i + 2] = " again" /\ w[i + 3] = " later"

\* C13: the rate-limit check answers true exactly when the banner has a text
\* containing "Try again later"; with the banner absent, its text null or the
\* read failing it answers false; it never raises.
C13_RateLimitCheck ==
    rate_limited # "none" =>
        /\ rate_limited \in {"True", "False"}
        /\ rate_limited = "True" <=>
              (rate_limit_message.kind = "text" /\ HasTryAgainLater(rate_limit_message.text))
        /\ rate_limit_message.kind # "text" => rate_limited = "False"
        /\ rate_limit_message.text = <<"Please", " try", " again">> => rate_limited = "False"

\* "Try again later, thanks" was checked and gave true
C13_Witness ==
    /\ rate_limit_message = [kind |-> "text",
                             text |-> <<"Try", " again", " later", ", thanks">>]
    /\ rate_limited = "True"

----------------------------------------------------------------------------
(* Timeouts *)

\* the timeouts a session is meant to wait with, by its task's proxy
TimeoutTiers(proxy) ==
    IF proxy
    THEN [checkbox |-> 20000, bframe |-> 10000, audio_button |-> 5000, download_link |-> 12000]
    ELSE [checkbox |-> 8000, bframe |-> 3000, audio_button |-> 2000, download_link |-> 5000]

WaitSteps == {"checkbox", "bframe", "audio_button", "download_link"}

\* C14 (as claimed): each wait a session has made used the timeout of its
\* task's tier: the proxy values when the task has a proxy, the direct values
\* when it has none.
C14_TimeoutsFollowProxy ==
    \A s \in Tasks : \A w \in WaitSteps :
        wait_timeout[s][w] # 0 => wait_timeout[s][w] = TimeoutTiers(task[s].proxy)[w]

\* a session without a proxy made all four waits with the direct values
C14_DirectTierUsed ==
    \E s \in Tasks :
        /\ ~task[s].proxy
        /\ wait_timeout[s] = TimeoutTiers(FALSE)

----------------------------------------------------------------------------
(* Every entry point: the /createTask route in front of the handler, and the *)
(* single-solver calls of main.py around a direct session.                   *)

\* `return None` of run_sync_single / run_async_single
CallerNone == [ok |-> FALSE, token |-> <<>>, code |-> "None", msg |-> <<>>, score |-> "none"]

MissingSelf == <<"solve_recaptcha() missing 1 required positional argument: 'self'">>

\* run_sync_single calls ReCaptchaSolver.solve_recaptcha on the class, and it
\* is an instance method: the call raises TypeError for the missing `self`
\* before the body starts; the except of run_sync_single returns None
run_sync_single(s) ==
    /\ pc[s] = "call"
    /\ impl[s] = "sync"
    /\ Jump(s, "done")
    /\ result' = [result EXCEPT ![s] = Raised(MissingSelf)]
    /\ reply' = [reply EXCEPT ![s] = CallerNone]
    /\ UNCHANGED <<impl, task, browser, context, trace, pending, method_i, page_tokens,
                   work_queue, batch, pure, audio_text, wait_timeout, http>>

\* variant: no except around the call
run_async_single_reraises(s) ==
    /\ pc[s] = "done"
    /\ impl[s] = "async"
    /\ reply[s] = NoResult
    /\ reply' = [reply EXCEPT ![s] = result[s]]
    /\ UNCHANGED <<impl, task, pc, browser, context, pending, result, method_i, page_tokens,
                   trace, work_queue, batch, pure, audio_text, wait_timeout, http>>

\* run_async_single: the awaited classmethod call returned a token or raised;
\* the except returns None
run_async_single(s) ==
    /\ pc[s] = "done"
    /\ impl[s] = "async"
    /\ reply[s] = NoResult
    /\ reply' = [reply EXCEPT ![s] = IF result[s].code = "raise" THEN CallerNone ELSE result[s]]
    /\ UNCHANGED <<impl, task, pc, browser, context, pending, result, method_i, page_tokens,
                   trace, work_queue, batch, pure, audio_text, wait_timeout, http>>

EntryInit == Init \/ SessionInit

EntryNext ==
    \/ Next
    \/ SessionNext
    \/ \E t \in Tasks : create_task_rejects(t)
    \/ \E s \in Tasks : run_sync_single(s) \/ run_async_single(s)

EntrySpec == EntryInit /\ [][EntryNext]_vars

\* the task asks for the score and names no site key
ScoreWithoutKey(s) == task[s].check_score /\ ~task[s].site_key

\* the request of s has been made: the call entered, or the route answered
Submitted(s) == pc[s] \notin {"idle", "call"}

\* C15: a task with checkScore and no site key is turned away with a parameter
\* error before anything is started for it: no spinner, no browser launch, no
\* context, no navigation. (The call of run_sync_single is turned away for its
\* missing `self`, whatever its parameters.)
C15_ScoreWithoutKeyRejected ==
    \A s \in Tasks :
        ScoreWithoutKey(s) =>
            /\ trace[s] = <<>>
            /\ browser[s] = "none" /\ context[s] = "none"
            /\ Submitted(s) =>
                  /\ pc[s] = "done"
                  /\ impl[s] = "api" => reply[s] = ApiError("ERROR_PARAMETER", MissingFields)
                  /\ impl[s] \in {"sync", "async"} =>
                        \/ result[s] = Raised(SiteKeyRequired)
                        \/ impl[s] = "sync" /\ reply[s] = CallerNone
                                            /\ result[s] = Raised(MissingSelf)

\* an async call with checkScore and no site key has been turned away
C15_Witness ==
    \E s \in Tasks :
        /\ impl[s] = "async"
        /\ ScoreWithoutKey(s)
        /\ result[s] = Raised(SiteKeyRequired)

\* a /createTask request with checkScore and no websiteKey has been turned away
C15_WitnessRoute ==
    \E t \in Tasks :
        /\ impl[t] = "api"
        /\ ScoreWithoutKey(t)
        /\ reply[t] = ApiError("ERROR_PARAMETER", MissingFields)

----------------------------------------------------------------------------
(* Score check *)

\* the score request of s did not deliver a score
ScoreCheckFailed(s) ==
    \E o \in ScoreResponses \ {"score"} : Did(s, "score_post", o)

\* C16 (as claimed): the score check leaves the session a success with the
\* token it obtained, raises nothing, and every failure of it -- network error,
\* non-JSON response, response without the score field -- gives the score
\* "Unknown".
C16_ScoreFailureGivesUnknown ==
    \A s \in Tasks :
        Called(s, "score_post") =>
            /\ pending[s].ok
            /\ \E m \in TokenMethods : Did(s, m, "token") /\ pending[s].token = TokenOf(m)
            /\ pc[s] = "done" => result[s] = pending[s]
            /\ ScoreCheckFailed(s) => pending[s].score = "Unknown"

\* the part of the claim that holds: the outcome of the session is the one it
\* had before the score request, whatever the request met
C16_ScoreCheckKeepsOutcome ==
    \A s \in Tasks :
        Called(s, "score_post") =>
            /\ pending[s].ok
            /\ \E m \in TokenMethods : Did(s, m, "token") /\ pending[s].token = TokenOf(m)
            /\ pc[s] = "done" => result[s] = pending[s]
            /\ (Did(s, "score_post", "not_json") \/ Did(s, "score_post", "network_error"))
                  => pending[s].score = "Unknown"

----------------------------------------------------------------------------
(* Audio download and transcription *)

\* the download link was found and its href was "" or None
AudioURLMissing(s) == Did(s, "get_href", "empty") \/ Did(s, "get_href", "missing")

\* C17: when the download link is found but has no resource URL the session
\* fails with the audio-download error; the transcription is never invoked
\* for it, and no answer is submitted.
C17_NoAudioURLFails ==
    \A s \in Tasks :
        AudioURLMissing(s) =>
            /\ ~Called(s, "process_audio")
            /\ ~Called(s, "fill_answer")
            /\ pending[s] = Raised(SolveWrap(NoAudioURL))
            /\ pc[s] = "done" => result[s] = Raised(SolveWrap(NoAudioURL))

\* a session whose download link had an empty href has ended
C17_Witness ==
    \E s \in Tasks :
        /\ pc[s] = "done"
        /\ Did(s, "get_href", "empty")
        /\ result[s] = Raised(SolveWrap(NoAudioURL))

\* C18 (as claimed): the transcription never hands an empty text to the
\* session; a recognised text whose cleaned and trimmed form is empty makes
\* the step fail, and the answer field is never filled with an empty string.
C18_NoEmptyAnswer ==
    \A s \in Tasks :
        /\ Did(s, "process_audio", "text") => audio_text[s] # <<>>
        /\ Called(s, "fill_answer") => audio_text[s] # <<>>

\* the recognised words were handed over cleaned and the answer was filled
C18_WordsSubmitted ==
    \E s \in Tasks :
        /\ Did(s, "fill_answer", "ok")
        /\ audio_text[s] = <<"a", " ", "1">>

----------------------------------------------------------------------------
(* _convert_audio_to_text on its own: the cleaning of an arbitrary recognised *)
(* text, and the cleaning of what it returned                                 *)

CleanInit ==
    /\ NoSessions
    /\ rate_limit_message = NoBanner
    /\ rate_limited = "none"
    /\ text \in TextsUpTo(MaxTextLen)
    /\ cleaned_text = NoText
    /\ frames = <<>>
    /\ frame_token = NotCalled
    /\ raised = NoError

\* the recogniser returned `text`
convert_audio_to_text_call ==
    /\ cleaned_text = NoText
    /\ cleaned_text' = convert_audio_to_text(text)
    /\ UNCHANGED <<impl, task, pc, browser, context, method_i, page_tokens, pending, result,
                   trace, work_queue, reply, batch, audio_text, wait_timeout,
                   rate_limit_message, rate_limited, text, http, raised, frames, frame_token>>

\* the text a call returned is recognised again and cleaned again
convert_audio_to_text_again ==
    /\ cleaned_text.kind = "return"
    /\ text # cleaned_text.text
    /\ text' = cleaned_text.text
    /\ cleaned_text' = convert_audio_to_text(cleaned_text.text)
    /\ UNCHANGED <<impl, task, pc, browser, context, method_i, page_tokens, pending, result,
                   trace, work_queue, reply, batch, audio_text, wait_timeout,
                   rate_limit_message, rate_limited, http, raised, frames, frame_token>>

CleanNext == convert_audio_to_text_call \/ convert_audio_to_text_again

CleanSpec == CleanInit /\ [][CleanNext]_vars

\* lowercase alphanumeric characters and spaces only
InCleanForm(t) == \A i \in DOMAIN t : t[i] \in {"a", "1", " "}

\* C19 (as claimed): a returned text consists of lowercase alphanumeric
\* characters and spaces only; a text already in that form is returned
\* unchanged; cleaning a returned text again returns the same text.
C19_CleaningIsStable ==
    /\ [](cleaned_text.kind = "return" =>
            /\ InCleanForm(cleaned_text.text)
            /\ InCleanForm(text) => cleaned_text.text = text)
    /\ [][(cleaned_text.kind = "return" /\ text' = cleaned_text.text)
             => cleaned_text' = cleaned_text]_vars

\* the part that holds: what is returned has no uppercase letter and no
\* punctuation, a text of lowercase letters, digits and inner spaces is
\* returned unchanged, and a non-empty returned text is returned again
C19_CleaningOfTrimmedText ==
    /\ [](cleaned_text.kind = "return" =>
            /\ \A i \in DOMAIN cleaned_text.text : cleaned_text.text[i] \in {"a", "1", " ", "\t"}
            /\ (InCleanForm(text) /\ text # <<>> /\ text[1] # " " /\ text[Len(text)] # " ")
                  => cleaned_text.text = text)
    /\ [][(cleaned_text.kind = "return" /\ cleaned_text.text # <<>>
             /\ text' = cleaned_text.text)
             => cleaned_text' = cleaned_text]_vars

----------------------------------------------------------------------------
(* The session boundary *)

ApiErrorCodes == {"ERROR_SOLVING", "ERROR_RATE_LIMIT", "ERROR_PARAMETER"}

\* a dictionary with errorId 0 and a solution, or with errorId 1, an errorCode
\* and an errorDescription
Structured(r) == IF r.ok THEN r.code = "ready" ELSE r.code \in ApiErrorCodes

\* a step of the worker of t raised
WorkerFault(t) ==
    \E c \in {"launch", "new_context", "new_page", "goto", "set_content"} : Did(t, c, "fault")

\* C20: on the API path nothing is raised past solve_captcha: the worker
\* returns a dictionary whatever fails, and the caller is given a structured
\* result, an error one (errorId 1) after a failure of launch, context, page
\* or navigation and after the timed wait gave up. On the single-solver paths
\* the exception reaches the direct caller only, which returns None for it.
C20_NoFailureEscapes ==
    \A t \in Tasks :
        /\ impl[t] = "api" =>
              /\ result[t].code # "raise"
              /\ reply[t] # NoResult => Structured(reply[t])
              /\ (reply[t] # NoResult /\ WorkerFault(t)) => ~reply[t].ok
              /\ pc[t] = "done" /\ WorkerFault(t) => ~result[t].ok /\ Structured(result[t])
        /\ impl[t] \in {"sync", "async"} =>
              /\ reply[t].code # "raise"
              /\ (reply[t] # NoResult /\ result[t].code = "raise") => reply[t] = CallerNone

\* one request was answered after its launch failed, another after its timed
\* wait gave up
C20_Witness ==
    \E t, u \in Tasks :
        /\ Did(t, "launch", "fault")
        /\ reply[t] = ApiError("ERROR_SOLVING", <<"launch failed">>)
        /\ reply[u] = TimeoutReply
        /\ pc[u] # "done"

\* an async call failed in a challenge step and its caller returned None
C20_WitnessSingle ==
    \E s \in Tasks :
        /\ impl[s] = "async"
        /\ Did(s, "wait_bframe", "timeout")
        /\ reply[s] = CallerNone

----------------------------------------------------------------------------
(* One attempt per task *)

\* the calls a session makes at most once
OnceCalls == {"loader.start", "launch", "new_context", "new_page", "goto", "set_content",
              "wait_anchor", "wait_checkbox", "click_checkbox", "wait_bframe",
              "wait_audio_button", "click_audio_button", "wait_download_link", "get_href",
              "process_audio", "fill_answer", "click_verify", "score_post",
              "solver.solve", "sleep", "context.close", "browser.close"}
             \cup TokenMethods

\* the number of tokens the strategies of s have produced
TokensProduced(s) ==
    Cardinality({ i \in DOMAIN trace[s] : trace[s][i][2] = "token" })

\* C21: each task is attempted once. A session makes each of its calls at most
\* once (one checkbox click, one audio request, one transcription, one answer)
\* and produces at most one token; once it has ended with its outcome it makes
\* no further call and the outcome does not change.
C21_AttemptedOnce ==
    /\ [](\A s \in Tasks :
            /\ \A c \in OnceCalls : Count(s, c) <= 1
            /\ TokensProduced(s) <= 1)
    /\ [][\A s \in Tasks :
            pc[s] = "done" =>
                /\ pc'[s] = "done"
                /\ result'[s] = result[s]
                /\ trace'[s] = trace[s]
                /\ browser'[s] = browser[s]
                /\ context'[s] = context[s]]_vars

\* a session went through the whole challenge once and ended with a token
C21_Witness ==
    \E s \in Tasks :
        /\ pc[s] = "done"
        /\ result[s].ok
        /\ Count(s, "click_checkbox") = 1
        /\ Count(s, "process_audio") = 1
        /\ Count(s, "fill_answer") = 1
        /\ TokensProduced(s) = 1

----------------------------------------------------------------------------
(* The pause before release *)

\* s called a, and later b
Before(s, a, b) ==
    \E i, j \in DOMAIN trace[s] : i < j /\ trace[s][i][1] = a /\ trace[s][j][1] = b

\* after its sleep s made no call but the two close() calls
OnlyClosesAfterSleep(s) ==
    \A i, j \in DOMAIN trace[s] :
        (i < j /\ trace[s][i][1] = "sleep") => trace[s][j][1] \in {"context.close", "browser.close"}

\* C22: with `wait` set the session sleeps after the solve attempt and before
\* context.close() and browser.close(): neither close() is called without the
\* sleep having been made before it, and after the sleep only the close()
\* calls follow. Without `wait` there is no sleep.
C22_PauseBeforeRelease ==
    \A s \in Tasks :
        /\ task[s].wait =>
              /\ Called(s, "context.close") => Before(s, "sleep", "context.close")
              /\ Called(s, "browser.close") => Before(s, "sleep", "browser.close")
              /\ context[s] = "closed" => Called(s, "sleep")
              /\ browser[s] = "closed" => Called(s, "sleep")
              /\ Called(s, "sleep") => Before(s, "goto", "sleep") /\ OnlyClosesAfterSleep(s)
        /\ ~task[s].wait => ~Called(s, "sleep")

\* a session with `wait` found its token, slept, and closed context and browser
C22_Witness ==
    \E s \in Tasks :
        /\ impl[s] \in {"sync", "async"}
        /\ task[s].wait
        /\ pc[s] = "done" /\ result[s].ok
        /\ Before(s, "sleep", "context.close")
        /\ Before(s, "context.close", "browser.close")

----------------------------------------------------------------------------
(* Failure at the first step *)

\* the anchor iframe or the checkbox in it did not appear
InitialControlNotFound(s) ==
    Did(s, "wait_anchor", "timeout") \/ Did(s, "wait_checkbox", "timeout")

\* the calls that come after the checkbox click
LaterCalls == {"click_checkbox", "wait_bframe", "wait_audio_button", "click_audio_button",
               "wait_download_link", "get_href", "process_audio", "fill_answer",
               "click_verify", "score_post"} \cup TokenMethods

\* C23: when the anchor iframe or the checkbox is not found within its wait
\* the session fails with that step's error and makes no later step: no
\* challenge-frame wait, no audio request, no transcription, no token
\* extraction, no score request.
C23_InitialFailureStops ==
    \A s \in Tasks :
        InitialControlNotFound(s) =>
            /\ \A c \in LaterCalls : ~Called(s, c)
            /\ pending[s] = Raised(SolveWrap(TimeoutMsg(
                   IF Did(s, "wait_anchor", "timeout") THEN "anchor iframe"
                                                        ELSE "#recaptcha-anchor")))
            /\ pc[s] = "done" => result[s] = pending[s]

\* a session whose checkbox did not appear has ended in failure
C23_Witness ==
    \E s \in Tasks :
        /\ pc[s] = "done"
        /\ Did(s, "wait_checkbox", "timeout")
        /\ result[s] = Raised(SolveWrap(TimeoutMsg("#recaptcha-anchor")))


----------------------------------------------------------------------------
(* The /createTask route *)

\* the request of t was turned away by the validation of create_task
MissingField(t) == impl[t] = "api" /\ pc[t] # "idle" /\ (~task[t].url \/ ~task[t].site_key)

\* the request of t passed the validation of create_task
Accepted(t) == impl[t] = "api" /\ pc[t] # "idle" /\ task[t].url /\ task[t].site_key

Queued(t) == \E i \in DOMAIN work_queue : work_queue[i] = t

\* the two shapes of a /createTask body
TaskBody(b) ==
    \/ b.ok /\ b.code = "ready" /\ b.token # <<>>
    \/ ~b.ok /\ b.code \in ApiErrorCodes \cup {"ERROR_UNKNOWN"} /\ b.token = <<>>

\* C24: a /createTask request without websiteURL or without websiteKey is
\* answered with status 400 and an ERROR_PARAMETER dictionary, and nothing is
\* handed to the executor for it: it is never queued and no worker step runs.
\* Every other request, once answered, is answered with a dictionary of one of
\* the two shapes: errorId 0 with a solution, or errorId 1 with an error code.
C24_CreateTaskAnswers ==
    \A t \in Tasks :
        /\ MissingField(t) =>
              /\ http[t] = Response(400, ApiError("ERROR_PARAMETER", MissingFields))
              /\ ~Queued(t)
              /\ pc[t] = "done"
              /\ trace[t] = <<>>
              /\ result[t] = NoResult
              /\ browser[t] = "none"
        /\ (Accepted(t) /\ http[t] # NoResponse) =>
              TaskBody(http[t].body)

\* one request lacks the URL and is turned away, one ran to a token and one
\* ended in an error dictionary; all three are answered
C24_Witness ==
    \E t, u, v \in Tasks :
        /\ MissingField(t) /\ ~task[t].url /\ task[t].site_key /\ http[t].status = 400
        /\ Accepted(u) /\ result[u].ok /\ pc[u] = "done" /\ http[u].status = 500
        /\ Accepted(v) /\ ~result[v].ok /\ pc[v] = "done" /\ http[v].status = 200


----------------------------------------------------------------------------
(* The /solve route *)

\* the bodies a client posts to /solve: url, sitekey and check_score present or not
SolveBodies == { d \in TaskParams : ~d.proxy /\ ~d.wait }

\* the app has one URL rule, /createTask: a request for any other path ends in
\* the framework's 404 page, and no view function runs
NotFound == Response(404, [ok |-> FALSE, token |-> <<>>, code |-> "NotFound",
                           msg |-> <<"404 Not Found">>, score |-> "none"])

\* POST /solve against the app of api_solver
post_solve(t) ==
    /\ pc[t] = "idle"
    /\ impl[t] = "api"
    /\ \E d \in SolveBodies : task' = [task EXCEPT ![t] = d]
    /\ Jump(t, "done")
    /\ http' = [http EXCEPT ![t] = NotFound]
    /\ UNCHANGED <<impl, browser, context, pending, result, reply, method_i, page_tokens,
                   trace, work_queue, batch, pure, audio_text, wait_timeout>>

RouteNext == \E t \in Tasks : post_solve(t)

\* the API server, every request going to /solve
RouteSpec == Init /\ [][RouteNext]_vars

\* {success: true, token} or {success: false, error}
SolveBody(b) ==
    \/ b.ok /\ b.token # <<>>
    \/ ~b.ok /\ b.token = <<>> /\ b.msg # <<>>

\* C25: POST /solve is answered with {success, token?, error?}: status 200 with
\* a non-empty token when the solve succeeds, 400 when url or site key is
\* missing, 408 on timeout, 500 on other failures.
C25_SolveRouteAnswers ==
    \A t \in Tasks :
        http[t] # NoResponse =>
            /\ SolveBody(http[t].body)
            /\ http[t].status \in {200, 400, 408, 500}
            /\ http[t].status = 200 <=> http[t].body.ok
            /\ (~task[t].url \/ ~task[t].site_key) <=> http[t].status = 400


----------------------------------------------------------------------------
(* The two session implementations side by side *)

\* the calls the step methods of _solve make on a page or on a frame of it
PageOps == {"wait_anchor", "wait_checkbox", "click_checkbox", "wait_bframe",
            "wait_audio_button", "click_audio_button", "check_rate_limit",
            "wait_download_link", "get_href", "fill_answer", "click_verify"}
           \cup TokenMethods

\* the calls solve_recaptcha makes on the page it got from context.new_page()
NavOps == {"goto", "set_content"}

\* the page the step methods work on. They read self.page. The async
\* classmethod builds its solver from the page it opened, `cls(page, debug)`,
\* and so does the API worker; the sync method runs on an instance built
\* earlier, whose self.page is the page given to the constructor, and
\* _solve(page) does not use its argument
StepsPage(s) == IF impl[s] = "sync" THEN "page given to __init__" ELSE "page of this call"

\* the object a call of the session is made on
Target(s, call) ==
    CASE call \in PageOps -> StepsPage(s)
      [] call \in NavOps -> "page of this call"
      [] OTHER -> "none"

\* the calls of the session in order, each with the object it is made on
Operations(s) == [i \in DOMAIN trace[s] |-> <<trace[s][i][1], Target(s, trace[s][i][1])>>]

\* what a session is given: the task, the call of solve_recaptcha and the
\* responses of its collaborators
Inputs(s) == <<task[s], pc[s] # "call", trace[s], page_tokens[s], audio_text[s]>>

\* what a session makes of it
Outputs(s) == <<pc[s], browser[s], context[s], pending[s], result[s], method_i[s],
                wait_timeout[s]>>

\* session 1 is a sync call and session 2 an async call for the same task
PairInit ==
    /\ InitCommon
    /\ NoCalls
    /\ impl = [t \in Tasks |-> IF t = 1 THEN "sync" ELSE IF t = 2 THEN "async" ELSE "none"]
    /\ \E d \in SessionTasks : task = [t \in Tasks |-> IF t \in {1, 2} THEN d ELSE NoTask]
    /\ pc = [t \in Tasks |-> IF t \in {1, 2} THEN "call" ELSE "idle"]

\* the sync session takes a step, its collaborators answering as they like
PairLead == Inputs(1) = Inputs(2) /\ SessionStep(1)

\* the async session takes its next step and is given the same answers
PairFollow == Inputs(1) # Inputs(2) /\ SessionStep(2) /\ Inputs(2)' = Inputs(1)'

PairNext == PairLead \/ PairFollow

PairSpec == PairInit /\ [][PairNext]_vars

\* C26: the sync and the async session are externally equivalent: given the
\* same task and the same collaborator responses, both are at the same point
\* with the same outcome (token or failure with its message), and both have
\* performed the same sequence of browser operations, each on the same object.
C26_SyncAsyncEquivalent ==
    Inputs(1) = Inputs(2) =>
        /\ Outputs(1) = Outputs(2)
        /\ Operations(1) = Operations(2)

\* given the same responses both arrive at the same point with the same result
PairSameOutcome == Inputs(1) = Inputs(2) => Outputs(1) = Outputs(2)

\* the async session can always take the step the sync session took
PairCanFollow == Inputs(1) # Inputs(2) => ENABLED PairFollow


----------------------------------------------------------------------------
(* The order of the steps *)

\* every call of b by s comes after a call of a that ended in one of oks
DoneBefore(s, a, oks, b) ==
    \A j \in DOMAIN trace[s] :
        trace[s][j][1] = b =>
            \E i \in DOMAIN trace[s] : i < j /\ trace[s][i][1] = a /\ trace[s][i][2] \in oks

\* the steps of the challenge path in order, each with the outcomes that count
\* as its success
StepOrder == << <<"click_checkbox", {"ok"}>>, <<"wait_bframe", {"frame"}>>,
                <<"click_audio_button", {"ok"}>>, <<"get_href", {"url"}>>,
                <<"process_audio", {"text"}>>, <<"fill_answer", {"ok"}>>,
                <<"click_verify", {"ok"}>> >>

\* s went down the challenge path: the challenge frame was there
OnChallengePath(s) == Did(s, "wait_bframe", "frame")

\* C27: the steps of a session happen in forward order only: the checkbox click
\* before the challenge-frame detection, and on the challenge path the
\* audio-button click before the reading of the download URL, that before the
\* transcription, that before the filling of the answer, that before the click
\* on verify, that before the token extraction. No step is made before its
\* predecessor has succeeded, and none is made twice.
C27_ForwardOnly ==
    \A s \in Tasks :
        /\ \A k \in 1..(Len(StepOrder) - 1) :
              DoneBefore(s, StepOrder[k][1], StepOrder[k][2], StepOrder[k + 1][1])
        /\ OnChallengePath(s) =>
              \A m \in TokenMethods : DoneBefore(s, "click_verify", {"ok"}, m)
        /\ \A k \in DOMAIN StepOrder : Count(s, StepOrder[k][1]) <= 1

\* the same without the link between the audio button and the download URL
ForwardOnlyButAudio ==
    \A s \in Tasks :
        /\ \A k \in (1..(Len(StepOrder) - 1)) \ {3} :
              DoneBefore(s, StepOrder[k][1], StepOrder[k][2], StepOrder[k + 1][1])
        /\ DoneBefore(s, "wait_bframe", {"frame"}, "get_href")
        /\ OnChallengePath(s) =>
              \A m \in TokenMethods : DoneBefore(s, "click_verify", {"ok"}, m)
        /\ \A k \in DOMAIN StepOrder : Count(s, StepOrder[k][1]) <= 1


----------------------------------------------------------------------------
(* The page of a session *)

\* s opened at most one browser, one context and one page
OneBrowserContextPage(s) ==
    /\ Count(s, "launch") <= 1
    /\ Count(s, "new_context") <= 1
    /\ Count(s, "new_page") <= 1

\* every call the steps of s made on a page went to the page that the solve
\* call of s opened and navigated
StepsOnOwnPage(s) ==
    \A i \in DOMAIN trace[s] :
        trace[s][i][1] \in PageOps =>
            /\ Target(s, trace[s][i][1]) = "page of this call"
            /\ \E j \in DOMAIN trace[s] : j < i /\ trace[s][j] = <<"new_page", "ok">>
            /\ \E j \in DOMAIN trace[s] : j < i /\ trace[s][j] = <<"goto", "ok">>

\* C28: a session owns one browser, one context and one page for its lifetime,
\* and every challenge step and every token-extraction call of the session is
\* made on the page that its own solve call opened and navigated, never on a
\* page created outside that call.
C28_OwnPage ==
    \A s \in Tasks : OneBrowserContextPage(s) /\ StepsOnOwnPage(s)

\* the same for the sessions of the async solver alone
AsyncOwnPage ==
    \A s \in Tasks : impl[s] = "async" => OneBrowserContextPage(s) /\ StepsOnOwnPage(s)

\* the sync solver opens one browser, one context and one page as well
SyncOneBrowser ==
    \A s \in Tasks : impl[s] = "sync" => OneBrowserContextPage(s)


----------------------------------------------------------------------------
(* The page the challenge is solved on *)

\* what the page opened by the call holds: page.goto(url) loads the document of
\* the url; page.set_content(...) replaces the document by the template
PageContent(s) ==
    IF Did(s, "set_content", "ok") THEN "template"
    ELSE IF Did(s, "goto", "ok") THEN "content of the url"
    ELSE "blank"

\* s made a call of one of its steps
StepsStarted(s) == \E c \in PageOps : Called(s, c)

\* C29: the session navigates to the task URL; the template page with the site
\* key is synthesized only when no real page is given, and when a URL is given
\* the content loaded from it is what the challenge is solved on.
C29_TemplateOnlyWithoutPage ==
    \A s \in Tasks :
        /\ Called(s, "set_content") => (Did(s, "goto", "ok") /\ ~task[s].url)
        /\ (task[s].url /\ StepsStarted(s)) => PageContent(s) = "content of the url"

\* what the code does: it always navigates first, and replaces the loaded
\* document by the template exactly when a site key is given
TemplateFollowsSiteKey ==
    \A s \in Tasks :
        /\ Called(s, "set_content") => (Did(s, "goto", "ok") /\ task[s].site_key)
        /\ StepsStarted(s) =>
              PageContent(s) = IF task[s].site_key THEN "template" ELSE "content of the url"


----------------------------------------------------------------------------
(* The timeout of a request that is still queued *)

\* the wait of solve_captcha on the future of t expired
TimedOut(t) == impl[t] = "api" /\ reply[t] = TimeoutReply

\* t was answered with the timeout result while its job had not been started
TimedOutInQueue(t) == TimedOut(t) /\ pc[t] = "queued" /\ Queued(t)

\* the job of t ran its session to the end and released what it opened
RanAndReleased(t) ==
    /\ pc[t] = "done"
    /\ Did(t, "loader.start", "ok") /\ Called(t, "launch")
    /\ result[t] # NoResult
    /\ browser[t] # "open" /\ context[t] # "open"
    /\ Did(t, "new_page", "ok") =>
          /\ Did(t, "context.close", "ok") /\ context[t] = "closed"
          /\ Did(t, "browser.close", "ok") /\ browser[t] = "closed"

\* C30: the wait of solve_captcha runs from the submission of the job, so a
\* request can be answered with the ERROR_SOLVING timeout result while its job
\* is still queued. The expiry cancels nothing: the job keeps its place in the
\* queue or goes on running, a running job answered by timeout still counts
\* against the max_workers slots, and in the end every job answered by timeout
\* has run its session and closed its own context and browser.
C30_TimeoutDoesNotCancel ==
    /\ [](Cardinality(Running) <= MaxConcurrent)
    /\ [][\A t \in Tasks :
            (reply[t] = NoResult /\ reply'[t] = TimeoutReply) =>
                (pc'[t] = pc[t] /\ work_queue' = work_queue /\ result'[t] = result[t])]_vars
    /\ [][\A t \in Tasks :
            (TimedOut(t) /\ pc[t] # "done") =>
                (pc'[t] # "idle" /\ (Queued(t) => (Queued(t)' \/ pc'[t] = "launch")))]_vars
    /\ <>[](\A t \in Tasks : TimedOut(t) => RanAndReleased(t))

\* a request is answered with the timeout result while it is queued behind
\* max_workers running sessions
C30_Witness ==
    \E t \in Tasks :
        /\ TimedOutInQueue(t)
        /\ http[t] = Response(200, TimeoutReply)
        /\ Cardinality(Running) = MaxConcurrent

\* a job answered by timeout has since run a session that produced a token
TimedOutThenSolved ==
    \E t \in Tasks : TimedOut(t) /\ RanAndReleased(t) /\ result[t].ok


----------------------------------------------------------------------------
(* A timeout of the download-link wait *)

\* the wait for the download link of s timed out
DownloadLinkTimedOut(s) == Did(s, "wait_download_link", "timeout")

\* the banner the rate-limit check met right after that timeout
BannerAfterDownloadTimeout(s) ==
    { trace[s][i + 1][2] : i \in { j \in DOMAIN trace[s] :
                                     /\ trace[s][j] = <<"wait_download_link", "timeout">>
                                     /\ j + 1 \in DOMAIN trace[s]
                                     /\ trace[s][j + 1][1] = "check_rate_limit" } }

\* the rate-limit error solve_recaptcha raises for the task of s
RateLimitError(s) == Raised(IF task[s].proxy THEN <<RateLimitProxy>> ELSE <<RateLimitGeneric>>)

\* C31: in the sync and async sessions a timeout of the wait for the download
\* link is followed by the rate-limit check. If the banner reports a rate
\* limit the session fails with the rate-limit error; otherwise it fails with
\* the timeout error of that wait. In both cases no transcription is made, no
\* answer is filled and no token is looked for.
C31_DownloadTimeoutChecksRateLimit ==
    \A s \in Tasks :
        DownloadLinkTimedOut(s) =>
            /\ impl[s] \in {"sync", "async"}
            /\ Cardinality(BannerAfterDownloadTimeout(s)) = 1
            /\ \A b \in BannerAfterDownloadTimeout(s) :
                  pending[s] = IF b = "Try again later"
                               THEN RateLimitError(s)
                               ELSE Raised(SolveWrap(TimeoutMsg(".rc-audiochallenge-tdownload-link")))
            /\ ~Called(s, "process_audio") /\ ~Called(s, "fill_answer")
            /\ \A m \in TokenMethods : ~Called(s, m)
            /\ pc[s] = "done" => result[s] = pending[s]

\* a session ended with the rate-limit error after its download-link wait
\* timed out under the banner
C31_Witness ==
    \E s \in Tasks :
        /\ DownloadLinkTimedOut(s)
        /\ "Try again later" \in BannerAfterDownloadTimeout(s)
        /\ pc[s] = "done" /\ result[s] = RateLimitError(s)

\* a session ended with the timeout error of the download-link wait
DownloadTimeoutPropagated ==
    \E s \in Tasks :
        /\ DownloadLinkTimedOut(s)
        /\ "absent" \in BannerAfterDownloadTimeout(s)
        /\ pc[s] = "done"
        /\ result[s] = Raised(SolveWrap(TimeoutMsg(".rc-audiochallenge-tdownload-link")))


----------------------------------------------------------------------------
(* The inner handler on its own: how a failure is classified *)

\* the parts a URL is spelled with
UrlParts == {"rate", "Rate", " limit", " LIMIT", "limit", "/docs"}

MaxUrlLen == 3

\* the URLs a caller passes
Urls == UNION { [1..k -> UrlParts] : k \in 1..MaxUrlLen }

\* the text of the error page.goto(url) raises: it names the URL it was given
GotoError(u) == <<"Page.goto: navigation failed. Call log: navigating to ">> \o u

\* the selectors the steps wait for
Selectors == {"anchor iframe", "#recaptcha-anchor", "bframe iframe",
              ".rc-audiochallenge-tdownload-link", "#audio-response",
              "#recaptcha-verify-button"}

\* what the statements of the inner try raise: the step that failed and the
\* text of its exception. The API worker's try holds goto and set_content only;
\* its solve() call is not awaited and raises nothing.
RaisedInTry(i) ==
    { [step |-> "goto", msg |-> GotoError(u)] : u \in Urls }
    \cup { [step |-> "set_content", msg |-> <<"set_content failed">>] }
    \cup (IF i = "api" THEN {} ELSE
          { [step |-> "check_rate_limit", msg |-> SolveWrap(InnerRateLimitMsg)],
            [step |-> "download_audio", msg |-> SolveWrap(<<"Failed to download audio file">>)],
            [step |-> "convert_audio_to_text", msg |-> SolveWrap(CouldNotUnderstand)],
            [step |-> "get_href", msg |-> SolveWrap(NoAudioURL)],
            [step |-> "get_token", msg |-> SolveWrap(TokenNotFound)] }
          \cup { [step |-> "wait_for_selector", msg |-> SolveWrap(TimeoutMsg(sel))] :
                 sel \in Selectors })

\* session 1 is inside its inner try, browser, context and page open, and a
\* statement of the try raises
ClassifyInit ==
    /\ \E i \in {"sync", "async", "api"} :
        /\ impl = [t \in Tasks |-> IF t = 1 THEN i ELSE "none"]
        /\ \E d \in (IF i = "api" THEN { e \in TaskParams : e.url /\ e.site_key } ELSE SessionTasks) :
              task = [t \in Tasks |-> IF t = 1 THEN d ELSE NoTask]
        /\ raised \in RaisedInTry(i)
    /\ pc = [t \in Tasks |-> IF t = 1 THEN "except" ELSE "idle"]
    /\ browser = [t \in Tasks |-> IF t = 1 THEN "open" ELSE "none"]
    /\ context = [t \in Tasks |-> IF t = 1 THEN "open" ELSE "none"]
    /\ trace = [t \in Tasks |-> IF t = 1
                                THEN << <<"loader.start", "ok">>, <<"launch", "ok">>,
                                        <<"new_context", "ok">>, <<"new_page", "ok">> >>
                                ELSE <<>>]
    /\ method_i = [t \in Tasks |-> 0]
    /\ page_tokens = [t \in Tasks |-> NoTokens]
    /\ pending = [t \in Tasks |-> NoResult]
    /\ result = [t \in Tasks |-> NoResult]
    /\ reply = [t \in Tasks |-> NoResult]
    /\ http = [t \in Tasks |-> NoResponse]
    /\ work_queue = <<>>
    /\ completed = <<>>
    /\ returned = <<>>
    /\ audio_text = [t \in Tasks |-> <<>>]
    /\ wait_timeout = [t \in Tasks |-> NoWaits]
    /\ rate_limit_message = NoBanner
    /\ rate_limited = "none"
    /\ text = <<>>
    /\ cleaned_text = NoText
    /\ frames = <<>>
    /\ frame_token = NotCalled

\* `except Exception as e:` of the inner try, given the exception `raised`
inner_except(s) ==
    /\ pc[s] = "except"
    /\ raised # NoError
    /\ Log(s, << <<raised.step, "raised">> >>)
    /\ pending' = [pending EXCEPT ![s] = Handler(s, raised.msg)]
    /\ Jump(s, IF impl[s] = "api" THEN "finally" ELSE EnterFinally(s))
    /\ UNCHANGED <<impl, task, browser, context, result, reply, http, method_i,
                   page_tokens, work_queue, batch, pure, audio_text, wait_timeout>>

ClassifyNext ==
    \E s \in Tasks :
        \/ inner_except(s)
        \/ finally_sleep(s) \/ context_close(s) \/ browser_close(s)
        \/ api_finally(s)

ClassifySpec == ClassifyInit /\ [][ClassifyNext]_vars

\* the outcome r is a rate-limit outcome
RateLimited(r) ==
    \/ r.code = "ERROR_RATE_LIMIT"
    \/ r.code = "raise" /\ r.msg \in {<<RateLimitGeneric>>, <<RateLimitProxy>>}

\* C32: a session's outcome is a rate-limit outcome (the rate-limit message, or
\* ERROR_RATE_LIMIT on the API path) only if the rate-limit check returned true
\* in that session; the failure of any other step is not reported as a rate
\* limit.
C32_RateLimitOnlyAfterCheck ==
    \A s \in Tasks :
        (RateLimited(pending[s]) \/ RateLimited(result[s])) => raised.step = "check_rate_limit"

\* the failures the claim lists (selector timeout, audio download,
\* transcription, token not found) are not reported as rate limits
ListedFailuresNotRateLimited ==
    \A s \in Tasks :
        raised.step \in {"wait_for_selector", "download_audio", "convert_audio_to_text",
                         "get_href", "get_token", "set_content"}
            => ~RateLimited(pending[s]) /\ ~RateLimited(result[s])


----------------------------------------------------------------------------
(* Nothing after release *)

\* the calls a session makes on its browser, context, page and frames, and its
\* score request
BrowserOps == PageOps \cup NavOps \cup {"launch", "new_context", "new_page",
                                        "solver.solve", "score_post"}

\* where the release of s begins: the place of its context.close() among its
\* calls, or past the last call when it has not been made
ReleaseAt(s) ==
    IF Called(s, "context.close")
    THEN CHOOSE i \in DOMAIN trace[s] : trace[s][i][1] = "context.close"
    ELSE Len(trace[s]) + 1

\* C33: no browser operation is made after release: every wait, click, fill,
\* evaluation and token extraction of a session, and its score request, come
\* before its context.close(); context.close() comes before browser.close(),
\* and nothing comes after browser.close().
C33_NoOperationAfterRelease ==
    \A s \in Tasks :
        LET r == ReleaseAt(s)
        IN /\ \A i \in DOMAIN trace[s] :
                /\ trace[s][i][1] \in BrowserOps => i < r
                /\ trace[s][i][1] = "browser.close" => i = r + 1
                /\ i > r => (i = r + 1 /\ trace[s][i][1] = "browser.close")
           /\ context[s] = "closed" => pc[s] \in {"browser_close", "done"}

\* a session went through the challenge, found a token, asked for the score
\* and then closed its context and its browser
C33_Witness ==
    \E s \in Tasks :
        /\ pc[s] = "done" /\ result[s].ok
        /\ Before(s, "click_verify", "context.close")
        /\ \E m \in TokenMethods : Before(s, m, "score_post")
        /\ Before(s, "score_post", "context.close")
        /\ Before(s, "context.close", "browser.close")


----------------------------------------------------------------------------
(* The score request *)

\* the place of the score request among the calls of s
ScoreAt(s) == CHOOSE i \in DOMAIN trace[s] : trace[s][i][1] = "score_post"

\* a token strategy of s returned a token before call number n
TokenBefore(s, n) ==
    \E i \in DOMAIN trace[s] :
        i < n /\ trace[s][i][1] \in TokenMethods /\ trace[s][i][2] = "token"

\* the solve attempt of s failed: a step raised before a token existed
SolveFailed(s) == pending[s].code \in {"raise"} \cup ApiErrorCodes

\* C34: the score endpoint is called at most once in a session, only when the
\* task has checkScore set, and only after a token has been obtained; a session
\* whose solve attempt failed never calls it.
C34_ScoreOnlyAfterToken ==
    \A s \in Tasks :
        /\ Count(s, "score_post") <= 1
        /\ Called(s, "score_post") =>
              /\ task[s].check_score
              /\ TokenBefore(s, ScoreAt(s))
              /\ pending[s].ok
        /\ SolveFailed(s) => ~Called(s, "score_post")

\* a session with checkScore read a token and then asked for its score
C34_Witness ==
    \E s \in Tasks :
        /\ task[s].check_score
        /\ pc[s] = "done" /\ result[s].ok /\ result[s].score = "0.9"
        /\ Count(s, "score_post") = 1 /\ TokenBefore(s, ScoreAt(s))

\* a session with checkScore failed at a step and never asked for the score
ScoreSkippedOnFailure ==
    \E s \in Tasks :
        /\ task[s].check_score /\ task[s].site_key
        /\ pc[s] = "done" /\ SolveFailed(s) /\ Called(s, "click_checkbox")
        /\ ~Called(s, "score_post")


----------------------------------------------------------------------------
(* The pause on the failure paths *)

\* the session call of s has reported its outcome
Reported(s) == result[s] # NoResult

\* the last three calls of s are the sleep and the two close() calls
EndsWithPauseAndRelease(s) ==
    LET n == Len(trace[s])
    IN /\ n >= 3
       /\ trace[s][n - 2] = <<"sleep", "ok">>
       /\ trace[s][n - 1] = <<"context.close", "ok">>
       /\ trace[s][n] = <<"browser.close", "ok">>

\* C35: with `wait` set the pause is taken on every way out of the session
\* once its page was created, the failed attempts included: an outcome, error
\* or token, is reported only after the sleep and after context and browser
\* were closed.
C35_PauseOnEveryExit ==
    \A s \in Tasks :
        (task[s].wait /\ Did(s, "new_page", "ok") /\ Reported(s)) =>
            /\ EndsWithPauseAndRelease(s)
            /\ Count(s, "sleep") = 1
            /\ context[s] = "closed" /\ browser[s] = "closed"

\* a session with `wait` failed at a step and reported the error after the
\* sleep and the two close() calls
C35_Witness ==
    \E s \in Tasks :
        /\ task[s].wait /\ Did(s, "new_page", "ok")
        /\ Reported(s) /\ ~result[s].ok
        /\ Did(s, "wait_checkbox", "timeout")
        /\ EndsWithPauseAndRelease(s)

\* the same on the API path: the navigation failed
PauseOnApiFailure ==
    \E t \in Tasks :
        /\ impl[t] = "api" /\ task[t].wait
        /\ Reported(t) /\ result[t].code = "ERROR_SOLVING" /\ Did(t, "goto", "fault")
        /\ EndsWithPauseAndRelease(t)


----------------------------------------------------------------------------
(* _get_frame_token on its own: one call against the frames of a page *)

\* what frame.evaluate('document.getElementById("recaptcha-token").value')
\* meets in a frame: an element with a token, an element with the empty value,
\* or an evaluation that raises (no such element, frame detached)
FrameValues == {"token A", "token B", "", "error"}

MaxFrames == 3

FramesUpTo(n) == UNION { [1..k -> FrameValues] : k \in 0..n }

\* Python's None
None == "None"

\* frame.evaluate(...) raises
evaluate_raises(f) == f = "error"

\* `if token:`
truthy(v) == v # "" /\ v # None

\* variant: no try around the evaluation
RECURSIVE get_frame_token_unguarded(_)
get_frame_token_unguarded(fs) ==
    IF fs = <<>> THEN None
    ELSE IF evaluate_raises(Head(fs)) THEN "raise"
    ELSE IF truthy(Head(fs)) THEN Head(fs)
    ELSE get_frame_token_unguarded(Tail(fs))

\* the loop of _get_frame_token over page.frames: a token ends it, `except:
\* continue` and a falsy value go on to the next frame; `return None` after it
RECURSIVE get_frame_token(_)
get_frame_token(fs) ==
    IF fs = <<>> THEN None
    ELSE IF evaluate_raises(Head(fs)) THEN get_frame_token(Tail(fs))
    ELSE IF truthy(Head(fs)) THEN Head(fs)
    ELSE get_frame_token(Tail(fs))

FrameInit ==
    /\ NoSessions
    /\ rate_limit_message = NoBanner
    /\ rate_limited = "none"
    /\ text = <<>>
    /\ cleaned_text = NoText
    /\ raised = NoError
    /\ frames \in FramesUpTo(MaxFrames)
    /\ frame_token = NotCalled

\* self._get_frame_token()
get_frame_token_call ==
    /\ frame_token = NotCalled
    /\ frame_token' = get_frame_token(frames)
    /\ UNCHANGED <<impl, task, pc, browser, context, method_i, page_tokens, pending, result,
                   trace, work_queue, reply, http, batch, audio_text, wait_timeout,
                   rate_limit_message, rate_limited, text, cleaned_text, raised, frames>>

FrameSpec == FrameInit /\ [][get_frame_token_call]_vars

\* the frames that hold a token
TokenFrames == { i \in DOMAIN frames : frames[i] \in {"token A", "token B"} }

\* C36: the per-frame strategy goes through the frames of the page in order and
\* returns the token of the first frame that holds one; a frame whose
\* evaluation fails or whose value is empty counts as holding none and the
\* scan goes on; when no frame holds a token the call returns None, and it
\* never raises.
C36_FirstFrameToken ==
    frame_token # NotCalled =>
        /\ frame_token # "raise"
        /\ TokenFrames = {} => frame_token = None
        /\ TokenFrames # {} =>
              \E i \in TokenFrames :
                  /\ \A j \in TokenFrames : i <= j
                  /\ frame_token = frames[i]

\* the first frame fails, the second is empty, the third holds the token
\* that is returned
C36_Witness ==
    /\ frames = <<"error", "", "token B">>
    /\ frame_token = "token B"

\* every frame fails or is empty and the call returns None
NoFrameToken ==
    /\ frames = <<"", "error", "error">>
    /\ frame_token = None

====
